---------------------------- MODULE Spec2Model ----------------------------
(***************************************************************************)
(* A model of SatIntel's element-record parser (ConstructTLE) and of its   *)
(* time-series sampler (CalculateSGP4Positions).                           *)
(*                                                                         *)
(* Go strings are sequences of one-character strings, so that len(s),      *)
(* s[i] and s[a:b] are Len, indexing and SubSeq.  Go's indices are         *)
(* 0-based; the operators below that take an index take the Go index.      *)
(***************************************************************************)
EXTENDS Integers, Sequences, FiniteSets, TLC

(***************************************************************************)
(* Strings                                                                 *)
(***************************************************************************)

\* unicode.IsSpace on the characters the inputs below are made of.
IsSpace(c) == c \in {" ", "\t", "\n", "\r"}

IsDigit(c) == c \in {"0", "1", "2", "3", "4", "5", "6", "7", "8", "9"}

DigitChars == <<"0", "1", "2", "3", "4", "5", "6", "7", "8", "9">>

\* ch - '0' for a digit character.
DigitVal(c) == (CHOOSE i \in 1..10 : DigitChars[i] = c) - 1

\* The Go bounds checks: arr[i] and s[lo:hi] panic unless these hold.
GoIndexOK(arr, i) == 0 <= i /\ i < Len(arr)

GoSliceOK(s, lo, hi) == 0 <= lo /\ lo <= hi /\ hi <= Len(s)

\* arr[i] and s[lo:hi] with Go's indices (used once the bounds check passed).
At(arr, i) == arr[i + 1]

Slice(s, lo, hi) == SubSeq(s, lo + 1, hi)

RECURSIVE FieldsFrom(_, _, _, _)
FieldsFrom(s, i, cur, acc) ==
    IF i > Len(s)
    THEN IF cur = <<>> THEN acc ELSE Append(acc, cur)
    ELSE IF IsSpace(s[i])
         THEN FieldsFrom(s, i + 1, <<>>, IF cur = <<>> THEN acc ELSE Append(acc, cur))
         ELSE FieldsFrom(s, i + 1, Append(cur, s[i]), acc)

\* strings.Fields: the maximal runs of non-space characters, in order.
Fields(s) == FieldsFrom(s, 1, <<>>, <<>>)

RECURSIVE TrimLeft(_)
TrimLeft(s) == IF s # <<>> /\ IsSpace(Head(s)) THEN TrimLeft(Tail(s)) ELSE s

RECURSIVE TrimRight(_)
TrimRight(s) ==
    IF s # <<>> /\ IsSpace(s[Len(s)]) THEN TrimRight(SubSeq(s, 1, Len(s) - 1)) ELSE s

\* strings.TrimSpace
TrimSpace(s) == TrimRight(TrimLeft(s))

\* strings.HasPrefix
HasPrefix(s, p) == Len(s) >= Len(p) /\ SubSeq(s, 1, Len(p)) = p

AllDigits(s) == \A i \in 1..Len(s) : IsDigit(s[i])

(***************************************************************************)
(* strconv.Atoi.  Go's int is strconv.IntSize bits wide; the model takes   *)
(* the 32-bit build, whose range TLC's integers hold.  A syntax error      *)
(* gives (0, err); a value out of range gives the nearest end of the       *)
(* range together with a range error.                                      *)
(***************************************************************************)
MaxInt == 2147483647

MinInt == -MaxInt - 1

\* The digits' value, or MaxInt with over = TRUE once it exceeds MaxInt.
RECURSIVE PosValue(_, _, _)
PosValue(s, i, acc) ==
    IF i > Len(s) THEN [v |-> acc, over |-> FALSE]
    ELSE LET d == DigitVal(s[i])
         IN IF acc > (MaxInt - d) \div 10
            THEN [v |-> MaxInt, over |-> TRUE]
            ELSE PosValue(s, i + 1, acc * 10 + d)

\* Minus the digits' value, or MinInt with over = TRUE once it is below MinInt.
RECURSIVE NegValue(_, _, _)
NegValue(s, i, acc) ==
    IF i > Len(s) THEN [v |-> acc, over |-> FALSE]
    ELSE LET d == DigitVal(s[i])
         IN IF acc < ((MinInt + d) + 9) \div 10
            THEN [v |-> MinInt, over |-> TRUE]
            ELSE NegValue(s, i + 1, acc * 10 - d)

Atoi(s) ==
    LET signed == s # <<>> /\ s[1] \in {"+", "-"}
        body   == IF signed THEN Tail(s) ELSE s
    IN IF body = <<>> \/ ~AllDigits(body)
       THEN [v |-> 0, err |-> TRUE]
       ELSE LET r == IF signed /\ s[1] = "-"
                     THEN NegValue(body, 1, 0)
                     ELSE PosValue(body, 1, 0)
            IN [v |-> r.v, err |-> r.over]

(***************************************************************************)
(* strconv.ParseFloat(s, 64) on decimal text: [sign] digits [. digits]     *)
(* [e|E [sign] digits].  A float64 is modelled by the decimal it was       *)
(* written as, normalised: 0.d1 d2 ... dn * 10^pe with d1 # 0 and dn # 0,  *)
(* so that two texts denote the same value iff their records are equal     *)
(* (negative zero compares equal to zero, as in Go).  A syntax error gives *)
(* (0, err); a magnitude beyond the largest float64 gives (+-Inf, err).    *)
(***************************************************************************)
ZeroF == [cls |-> "zero", neg |-> FALSE, digs |-> <<>>, pe |-> 0]

InfF(neg) == [cls |-> "inf", neg |-> neg, digs |-> <<>>, pe |-> 0]

\* The mantissa loop of readFloat: digits and at most one point.
RECURSIVE ScanMant(_, _, _, _, _)
ScanMant(s, i, digs, intDigits, sawdot) ==
    IF i <= Len(s) /\ s[i] = "." /\ ~sawdot
    THEN ScanMant(s, i + 1, digs, intDigits, TRUE)
    ELSE IF i <= Len(s) /\ IsDigit(s[i])
         THEN ScanMant(s, i + 1, Append(digs, DigitVal(s[i])),
                       IF sawdot THEN intDigits ELSE intDigits + 1, sawdot)
         ELSE [digs |-> digs, intDigits |-> intDigits, next |-> i]

\* The exponent's digits: e = e*10 + d while e < 10000.
RECURSIVE ScanExp(_, _, _)
ScanExp(s, i, e) ==
    IF i <= Len(s) /\ IsDigit(s[i])
    THEN ScanExp(s, i + 1, IF e < 10000 THEN e * 10 + DigitVal(s[i]) ELSE e)
    ELSE [e |-> e, next |-> i]

RECURSIVE StripLeadingZeros(_, _)
StripLeadingZeros(digs, pe) ==
    IF digs # <<>> /\ Head(digs) = 0
    THEN StripLeadingZeros(Tail(digs), pe - 1)
    ELSE [digs |-> digs, pe |-> pe]

RECURSIVE StripTrailingZeros(_)
StripTrailingZeros(digs) ==
    IF digs # <<>> /\ digs[Len(digs)] = 0
    THEN StripTrailingZeros(SubSeq(digs, 1, Len(digs) - 1))
    ELSE digs

\* a >= b for digit sequences read as the fractions 0.a and 0.b.
RECURSIVE FracGE(_, _)
FracGE(a, b) ==
    IF b = <<>> THEN TRUE
    ELSE IF a = <<>> THEN \A i \in 1..Len(b) : b[i] = 0
    ELSE IF Head(a) # Head(b) THEN Head(a) > Head(b)
    ELSE FracGE(Tail(a), Tail(b))

\* 2^1024 - 2^970 = 0.1797693134862315807937... * 10^309: this and above is Inf.
OverflowDigits == <<1, 7, 9, 7, 6, 9, 3, 1, 3, 4, 8, 6, 2, 3, 1, 5, 8, 0, 7, 9, 3, 7>>

\* 2^-1075 = 0.2470328229206232720882... * 10^-323: this and below is 0.
UnderflowDigits == <<2, 4, 7, 0, 3, 2, 8, 2, 2, 9, 2, 0, 6, 2, 3, 2, 7, 2, 0, 8, 8, 2>>

\* The float64 nearest to (-1)^neg * 0.digs * 10^pe0, and whether it overflowed.
RoundDecimal(neg, digs0, pe0) ==
    LET lz   == StripLeadingZeros(digs0, pe0)
        digs == StripTrailingZeros(lz.digs)
        pe   == lz.pe
    IN IF digs = <<>> THEN [f |-> ZeroF, err |-> FALSE]
       ELSE IF pe > 309 \/ (pe = 309 /\ FracGE(digs, OverflowDigits))
            THEN [f |-> InfF(neg), err |-> TRUE]
       ELSE IF pe < -323 \/ (pe = -323 /\ FracGE(UnderflowDigits, digs))
            THEN [f |-> ZeroF, err |-> FALSE]
       ELSE [f |-> [cls |-> "fin", neg |-> neg, digs |-> digs, pe |-> pe], err |-> FALSE]

ParseFloat(s) ==
    LET signed  == s # <<>> /\ s[1] \in {"+", "-"}
        neg     == signed /\ s[1] = "-"
        m       == ScanMant(s, IF signed THEN 2 ELSE 1, <<>>, 0, FALSE)
        i       == m.next
        hasExp  == i <= Len(s) /\ s[i] \in {"e", "E"}
        esigned == hasExp /\ i + 1 <= Len(s) /\ s[i + 1] \in {"+", "-"}
        j       == IF esigned THEN i + 2 ELSE i + 1
        x       == ScanExp(s, j, 0)
        syntaxError == [f |-> ZeroF, err |-> TRUE]
    IN IF m.digs = <<>> THEN syntaxError
       ELSE IF ~hasExp
            THEN IF i <= Len(s) THEN syntaxError
                 ELSE RoundDecimal(neg, m.digs, m.intDigits)
       ELSE IF j > Len(s) \/ ~IsDigit(s[j]) \/ x.next <= Len(s) THEN syntaxError
       ELSE RoundDecimal(neg, m.digs,
                         m.intDigits + (IF esigned /\ s[i + 1] = "-" THEN -x.e ELSE x.e))

(***************************************************************************)
(* The element record and its parser, ConstructTLE.  A run of the parser   *)
(* is a record [tle, panic]: panic is set when an index or a slice fails   *)
(* Go's bounds check, and the statements after a panic are not executed.   *)
(***************************************************************************)
TLE ==
    [CommonName                 |-> <<>>,
     SatelliteCatalogNumber     |-> 0,
     ElsetClassificiation       |-> <<>>,
     InternationalDesignator    |-> <<>>,
     ElementSetEpoch            |-> ZeroF,
     FirstDerivativeMeanMotion  |-> ZeroF,
     SecondDerivativeMeanMotion |-> <<>>,
     BDragTerm                  |-> <<>>,
     ElementSetType             |-> 0,
     ElementNumber              |-> 0,
     ChecksumOne                |-> 0,
     OrbitInclination           |-> ZeroF,
     RightAscension             |-> ZeroF,
     Eccentrcity                |-> ZeroF,
     Perigee                    |-> ZeroF,
     MeanAnamoly                |-> ZeroF,
     MeanMotion                 |-> ZeroF,
     RevolutionNumber           |-> 0,
     ChecksumTwo                |-> 0]

Panic(r) == [r EXCEPT !.panic = TRUE]

\* (a guard off by one: `len(arr) >= i`)
HasTokOffByOne(arr, i) == Len(arr) >= i

\* The guard `len(arr) > i` in front of every use of arr[i].
HasTok(arr, i) == Len(arr) > i

\* (early returns that also reject a first token other than "1" and "2")
TooFewTokensOrWrongPrefix(firstArr, secondArr) ==
    \/ Len(firstArr) < 4
    \/ Len(secondArr) < 3
    \/ firstArr[1] # <<"1">>
    \/ secondArr[1] # <<"2">>

\* The two early returns.
TooFewTokens(firstArr, secondArr) == Len(firstArr) < 4 \/ Len(secondArr) < 3

\* line1 token[1]: catalog number and classification letter.
CatalogField(r, firstArr) ==
    IF ~HasTok(firstArr, 1) THEN r
    ELSE IF ~GoIndexOK(firstArr, 1) THEN Panic(r)
    ELSE LET catalogStr == At(firstArr, 1)
             n == Len(catalogStr)
         IN IF ~(n > 0) THEN r
            ELSE IF n > 1
                 THEN [r EXCEPT !.tle.SatelliteCatalogNumber = Atoi(Slice(catalogStr, 0, n - 1)).v,
                                !.tle.ElsetClassificiation = <<At(catalogStr, n - 1)>>]
                 ELSE [r EXCEPT !.tle.SatelliteCatalogNumber = Atoi(catalogStr).v]

\* (the designator never assigned)
DesignatorFieldSkipped(r, firstArr) == r

\* line1 token[2]: international designator.
DesignatorField(r, firstArr) ==
    IF ~HasTok(firstArr, 2) THEN r
    ELSE IF ~GoIndexOK(firstArr, 2) THEN Panic(r)
    ELSE [r EXCEPT !.tle.InternationalDesignator = At(firstArr, 2)]

\* line1 token[3]: epoch.
EpochField(r, firstArr) ==
    IF ~HasTok(firstArr, 3) THEN r
    ELSE IF ~GoIndexOK(firstArr, 3) THEN Panic(r)
    ELSE [r EXCEPT !.tle.ElementSetEpoch = ParseFloat(At(firstArr, 3)).f]

\* line1 token[4]: first derivative of the mean motion.
FirstDerivativeField(r, firstArr) ==
    IF ~HasTok(firstArr, 4) THEN r
    ELSE IF ~GoIndexOK(firstArr, 4) THEN Panic(r)
    ELSE [r EXCEPT !.tle.FirstDerivativeMeanMotion = ParseFloat(At(firstArr, 4)).f]

\* line1 token[5], token[6]: second derivative and drag term, kept as text.
SecondDerivativeField(r, firstArr) ==
    IF ~HasTok(firstArr, 5) THEN r
    ELSE IF ~GoIndexOK(firstArr, 5) THEN Panic(r)
    ELSE [r EXCEPT !.tle.SecondDerivativeMeanMotion = At(firstArr, 5)]

BDragField(r, firstArr) ==
    IF ~HasTok(firstArr, 6) THEN r
    ELSE IF ~GoIndexOK(firstArr, 6) THEN Panic(r)
    ELSE [r EXCEPT !.tle.BDragTerm = At(firstArr, 6)]

\* line1 token[7]: element-set type.
ElementSetTypeField(r, firstArr) ==
    IF ~HasTok(firstArr, 7) THEN r
    ELSE IF ~GoIndexOK(firstArr, 7) THEN Panic(r)
    ELSE [r EXCEPT !.tle.ElementSetType = Atoi(At(firstArr, 7)).v]

\* (an element number read from the whole of token[8], no checksum split off)
ElementNumberFieldWhole(r, firstArr) ==
    IF ~HasTok(firstArr, 8) THEN r
    ELSE IF ~GoIndexOK(firstArr, 8) THEN Panic(r)
    ELSE LET lastField == At(firstArr, 8)
         IN IF Len(lastField) > 0
            THEN [r EXCEPT !.tle.ElementNumber = Atoi(lastField).v]
            ELSE r

\* line1 token[8]: element number and the line-1 checksum.
ElementNumberField(r, firstArr) ==
    IF ~HasTok(firstArr, 8) THEN r
    ELSE IF ~GoIndexOK(firstArr, 8) THEN Panic(r)
    ELSE LET lastField == At(firstArr, 8)
             n == Len(lastField)
         IN IF n > 1
            THEN [r EXCEPT !.tle.ElementNumber = Atoi(Slice(lastField, 0, n - 1)).v,
                           !.tle.ChecksumOne = Atoi(<<At(lastField, n - 1)>>).v]
            ELSE IF n > 0
                 THEN [r EXCEPT !.tle.ElementNumber = Atoi(lastField).v]
                 ELSE r

\* line2 token[1]: catalog number, assigned over line 1's.
Catalog2Field(r, secondArr) ==
    IF ~HasTok(secondArr, 1) THEN r
    ELSE IF ~GoIndexOK(secondArr, 1) THEN Panic(r)
    ELSE [r EXCEPT !.tle.SatelliteCatalogNumber = Atoi(At(secondArr, 1)).v]

\* line2 token[2..6]: inclination, RAAN, eccentricity, perigee, mean anomaly.
InclinationField(r, secondArr) ==
    IF ~HasTok(secondArr, 2) THEN r
    ELSE IF ~GoIndexOK(secondArr, 2) THEN Panic(r)
    ELSE [r EXCEPT !.tle.OrbitInclination = ParseFloat(At(secondArr, 2)).f]

RightAscensionField(r, secondArr) ==
    IF ~HasTok(secondArr, 3) THEN r
    ELSE IF ~GoIndexOK(secondArr, 3) THEN Panic(r)
    ELSE [r EXCEPT !.tle.RightAscension = ParseFloat(At(secondArr, 3)).f]

EccentricityField(r, secondArr) ==
    IF ~HasTok(secondArr, 4) THEN r
    ELSE IF ~GoIndexOK(secondArr, 4) THEN Panic(r)
    ELSE [r EXCEPT !.tle.Eccentrcity = ParseFloat(<<"0", ".">> \o At(secondArr, 4)).f]

PerigeeField(r, secondArr) ==
    IF ~HasTok(secondArr, 5) THEN r
    ELSE IF ~GoIndexOK(secondArr, 5) THEN Panic(r)
    ELSE [r EXCEPT !.tle.Perigee = ParseFloat(At(secondArr, 5)).f]

MeanAnomalyField(r, secondArr) ==
    IF ~HasTok(secondArr, 6) THEN r
    ELSE IF ~GoIndexOK(secondArr, 6) THEN Panic(r)
    ELSE [r EXCEPT !.tle.MeanAnamoly = ParseFloat(At(secondArr, 6)).f]

\* (a revolution number read only from a token longer than 16 characters)
HasRevolutionWidthOffByOne(meanMotionStr) == Len(meanMotionStr) > 16

\* (a mean motion cut off the token only when the token is longer than 17)
HasMeanMotionWidthTooWide(meanMotionStr) == Len(meanMotionStr) > 17

\* The fixed-width split of line2 token[7]: `len(meanMotionStr) >= 11`,
\* `len(meanMotionStr) >= 16`.
HasMeanMotionWidth(meanMotionStr) == Len(meanMotionStr) >= 11

HasRevolutionWidth(meanMotionStr) == Len(meanMotionStr) >= 16

\* meanMotionStr[:11] or the whole token -> MeanMotion; meanMotionStr[11:16] ->
\* RevolutionNumber.
MeanMotionSplit(r, meanMotionStr) ==
    IF HasMeanMotionWidth(meanMotionStr)
    THEN IF ~GoSliceOK(meanMotionStr, 0, 11) THEN Panic(r)
         ELSE LET r1 == [r EXCEPT !.tle.MeanMotion = ParseFloat(Slice(meanMotionStr, 0, 11)).f]
              IN IF HasRevolutionWidth(meanMotionStr)
                 THEN IF ~GoSliceOK(meanMotionStr, 11, 16) THEN Panic(r1)
                      ELSE [r1 EXCEPT !.tle.RevolutionNumber =
                                          Atoi(Slice(meanMotionStr, 11, 16)).v]
                 ELSE r1
    ELSE [r EXCEPT !.tle.MeanMotion = ParseFloat(meanMotionStr).f]

\* (a checksum read only inside the `>= 11` branch)
ChecksumTwoFieldLongOnly(r, meanMotionStr) ==
    IF Len(meanMotionStr) >= 11
    THEN [r EXCEPT !.tle.ChecksumTwo = Atoi(<<At(meanMotionStr, Len(meanMotionStr) - 1)>>).v]
    ELSE r

\* The last character of the whole token -> ChecksumTwo.
ChecksumTwoField(r, meanMotionStr) ==
    IF Len(meanMotionStr) > 0
    THEN [r EXCEPT !.tle.ChecksumTwo = Atoi(<<At(meanMotionStr, Len(meanMotionStr) - 1)>>).v]
    ELSE r

\* line2 token[7]: mean motion, revolution number and the line-2 checksum.
MeanMotionField(r, secondArr) ==
    IF ~HasTok(secondArr, 7) THEN r
    ELSE IF ~GoIndexOK(secondArr, 7) THEN Panic(r)
    ELSE LET meanMotionStr == At(secondArr, 7)
             r1 == MeanMotionSplit(r, meanMotionStr)
         IN IF r1.panic THEN r1 ELSE ChecksumTwoField(r1, meanMotionStr)

\* The statements of ConstructTLE after the early returns, in order; a panic
\* ends the run.
RECURSIVE RunFields(_, _, _, _)
RunFields(r, firstArr, secondArr, k) ==
    IF r.panic \/ k > 15 THEN r
    ELSE RunFields(
           CASE k = 1  -> CatalogField(r, firstArr)
             [] k = 2  -> DesignatorField(r, firstArr)
             [] k = 3  -> EpochField(r, firstArr)
             [] k = 4  -> FirstDerivativeField(r, firstArr)
             [] k = 5  -> SecondDerivativeField(r, firstArr)
             [] k = 6  -> BDragField(r, firstArr)
             [] k = 7  -> ElementSetTypeField(r, firstArr)
             [] k = 8  -> ElementNumberField(r, firstArr)
             [] k = 9  -> Catalog2Field(r, secondArr)
             [] k = 10 -> InclinationField(r, secondArr)
             [] k = 11 -> RightAscensionField(r, secondArr)
             [] k = 12 -> EccentricityField(r, secondArr)
             [] k = 13 -> PerigeeField(r, secondArr)
             [] k = 14 -> MeanAnomalyField(r, secondArr)
             [] k = 15 -> MeanMotionField(r, secondArr),
           firstArr, secondArr, k + 1)

ConstructTLE(one, two, three) ==
    LET r0        == [tle |-> [TLE EXCEPT !.CommonName = one], panic |-> FALSE]
        firstArr  == Fields(two)
        secondArr == Fields(three)
    IN IF TooFewTokens(firstArr, secondArr) THEN r0
       ELSE RunFields(r0, firstArr, secondArr, 1)

\* The callers' test on the returned record (TLETextFile, TLEPlainString,
\* BatchDownloadTLE): too few tokens, or the three fields all zero or empty.
ThreeFieldTest(output) ==
    /\ output.SatelliteCatalogNumber = 0
    /\ output.InternationalDesignator = <<>>
    /\ output.ElementSetEpoch = ZeroF

ParsingFailed(lineOne, lineTwo, output) ==
    LET line1Fields == Fields(lineOne)
        line2Fields == Fields(lineTwo)
    IN IF Len(line1Fields) < 4 \/ Len(line2Fields) < 3 THEN TRUE
       ELSE ThreeFieldTest(output)

(***************************************************************************)
(* Inputs of the parser: the element pair of the repository's tests, cut   *)
(* to every number of tokens, with one token replaced, with leading white  *)
(* space, and with its original spacing.                                   *)
(***************************************************************************)
\* testTLELine1 and testTLELine2 as written.
testTLELine1 ==
    <<"1", " ", "2", "5", "5", "4", "4", "U", " ", "9", "8", "0", "6", "7", "A", " ",
    " ", " ", "0", "4", "2", "3", "6", ".", "5", "6", "0", "3", "1", "3", "9", "2",
    " ", " ", ".", "0", "0", "0", "2", "0", "1", "3", "7", " ", " ", "0", "0", "0",
    "0", "0", "-", "0", " ", " ", "1", "6", "5", "3", "8", "-", "3", " ", "0", " ",
    " ", "9", "9", "9", "3">>

testTLELine2 ==
    <<"2", " ", "2", "5", "5", "4", "4", " ", " ", "5", "1", ".", "6", "3", "3", "5",
    " ", "3", "4", "4", ".", "7", "7", "6", "0", " ", "0", "0", "0", "7", "9", "7",
    "6", " ", "1", "2", "6", ".", "2", "5", "2", "3", " ", "3", "2", "5", ".", "9",
    "3", "5", "9", " ", "1", "5", ".", "7", "0", "4", "0", "6", "8", "5", "6", "3",
    "2", "8", "9", "0", "6">>

\* Their tokens.
Line1Tokens ==
    <<<<"1">>,
      <<"2", "5", "5", "4", "4", "U">>,
      <<"9", "8", "0", "6", "7", "A">>,
      <<"0", "4", "2", "3", "6", ".", "5", "6", "0", "3", "1", "3", "9", "2">>,
      <<".", "0", "0", "0", "2", "0", "1", "3", "7">>,
      <<"0", "0", "0", "0", "0", "-", "0">>,
      <<"1", "6", "5", "3", "8", "-", "3">>,
      <<"0">>,
      <<"9", "9", "9", "3">>>>

Line2Tokens ==
    <<<<"2">>,
      <<"2", "5", "5", "4", "4">>,
      <<"5", "1", ".", "6", "3", "3", "5">>,
      <<"3", "4", "4", ".", "7", "7", "6", "0">>,
      <<"0", "0", "0", "7", "9", "7", "6">>,
      <<"1", "2", "6", ".", "2", "5", "2", "3">>,
      <<"3", "2", "5", ".", "9", "3", "5", "9">>,
      <<"1", "5", ".", "7", "0", "4", "0", "6", "8", "5", "6", "3", "2", "8", "9", "0", "6">>>>

\* <<Go index, token>>: the token put in place of the one at that index.
Line1Variants ==
    {<<0, <<"2">>>>,
     <<0, <<"A">>>>,
     <<1, <<"5">>>>,
     <<1, <<"U">>>>,
     <<1, <<"0", "U">>>>,
     <<1, <<"9", "9", "9", "9", "9", "9", "9", "9", "9", "9", "9", "U">>>>,
     <<2, <<"A">>>>,
     <<3, <<"0", ".", "0">>>>,
     <<3, <<"0">>>>,
     <<3, <<"-", "0">>>>,
     <<3, <<"A">>>>,
     <<3, <<"1", "e", "3", "0", "9">>>>,
     <<3, <<"1", "e", "-", "4", "0", "0">>>>,
     <<4, <<"-", "2", "e", "4", "0", "0">>>>,
     <<4, <<"-", ".", "5">>>>,
     <<7, <<"U">>>>,
     <<7, <<"9", "9", "9", "9", "9", "9", "9", "9", "9", "9", "9">>>>,
     <<8, <<"9">>>>,
     <<8, <<"A">>>>,
     <<8, <<"9", "A">>>>,
     <<8, <<"9", "9", "9", "9", "9", "9", "9", "9", "9", "9", "9">>>>,
     <<8, <<"-", "9", "9", "9", "9", "9", "9", "9", "9", "9", "9", "9">>>>}

Line2Variants ==
    {<<0, <<"1">>>>,
     <<1, <<"0">>>>,
     <<1, <<"A">>>>,
     <<1, <<"9", "9", "9", "9", "9", "9", "9", "9", "9", "9", "9">>>>,
     <<1, <<"-", "5">>>>,
     <<1, <<"-", "9", "9", "9", "9", "9", "9", "9", "9", "9", "9", "9">>>>,
     <<2, <<"1", "e", "3", "0", "9">>>>,
     <<2, <<"A">>>>,
     <<4, <<"5", "e", "9", "9", "9">>>>,
     <<4, <<"-", "5">>>>,
     <<6, <<"-", "1", "e", "3", "0", "9">>>>,
     <<7, <<"5">>>>,
     <<7, <<"A">>>>,
     <<7, <<"1", "e", "3", "0", "9">>>>,
     <<7, <<"1", "5", ".", "7", "0", "4", "0", "6", "8", "5">>>>,
     <<7, <<"1", "5", ".", "7", "0", "4", "0", "6", "8", "5", "6">>>>,
     <<7, <<"1", "5", ".", "7", "0", "4", "0", "6", "8", "5", "6", "A">>>>,
     <<7, <<"1", "5", ".", "7", "0", "4", "0", "6", "8", "5", "6", "3", "2", "8", "9">>>>,
     <<7, <<"1", "5", ".", "7", "0", "4", "0", "6", "8", "5", "6", "3", "2", "8", "9", "0">>>>,
     <<7, <<"1", "5", ".", "7", "0", "4", "0", "6", "8", "5", "6", "A", "2", "8", "9", "0", "6">>>>,
     <<7, <<"1", "5", ".", "7", "0", "4", "0", "6", "8", "5", "6", "3", "2", "8", "9", "0", "A">>>>,
     <<7, <<"1", "e", "3", "0", "9", "9", "9", "9", "9", "9", "9", "3", "2", "8", "9", "0", "6">>>>}

RECURSIVE Join(_, _)
Join(tokens, sep) ==
    IF tokens = <<>> THEN <<>>
    ELSE IF Len(tokens) = 1 THEN tokens[1]
    ELSE tokens[1] \o sep \o Join(Tail(tokens), sep)

RECURSIVE Repeat(_, _)
Repeat(c, n) == IF n = 0 THEN <<>> ELSE <<c>> \o Repeat(c, n - 1)

\* The most leading white space put in front of a line.
MaxPad == 1

LineInputs(line, tokens, variants) ==
    {Join(SubSeq(tokens, 1, k), <<" ">>) : k \in 0..Len(tokens)}
    \cup {Join([tokens EXCEPT ![v[1] + 1] = v[2]], <<" ">>) : v \in variants}
    \cup {Repeat(" ", n) \o line : n \in 0..MaxPad}
    \cup {Join(tokens, <<"\t">>), Join(Append(tokens, <<"7">>), <<" ", " ">>)}

LineOneInputs == LineInputs(testTLELine1, Line1Tokens, Line1Variants)

LineTwoInputs == LineInputs(testTLELine2, Line2Tokens, Line2Variants)

NameInputs == {<<>>, <<"I", "S", "S">>}

(***************************************************************************)
(* The single-epoch evaluation and the sampler.  An instant (time.Time)    *)
(* and an interval (time.Duration) are integers of one unit.  The          *)
(* propagation library is a function of the trimmed lines and the instant; *)
(* it returns no error.                                                    *)
(***************************************************************************)
NoError == "nil"

\* (checks of the length only)
ValidateLinesLengthOnly(l1, l2) ==
    IF Len(l1) < 69 \/ Len(l2) < 69
    THEN "invalid TLE: lines must be at least 69 characters"
    ELSE NoError

\* The checks in front of the library call.
ValidateLines(l1, l2) ==
    IF Len(l1) < 69 \/ Len(l2) < 69
    THEN "invalid TLE: lines must be at least 69 characters"
    ELSE IF ~HasPrefix(l1, <<"1", " ">>)
    THEN "invalid TLE: line 1 must start with '1 '"
    ELSE IF ~HasPrefix(l2, <<"2", " ">>)
    THEN "invalid TLE: line 2 must start with '2 '"
    ELSE NoError

\* SGPPosition{}
ZeroPosition == [Timestamp |-> 0, sat |-> <<>>]

CalculateSGP4Position(l1, l2, targetTime) ==
    LET t1 == TrimSpace(l1)
        t2 == TrimSpace(l2)
        e  == ValidateLines(t1, t2)
    IN IF e # NoError
       THEN [pos |-> ZeroPosition, err |-> e]
       ELSE [pos |-> [Timestamp |-> targetTime, sat |-> <<t1, t2>>], err |-> NoError]

\* t.After(u)
After(t, u) == t > u

\* (a loop that stops before end: currentTime.Before(endTime))
LoopCondExclusive(cur, end) == cur < end

\* The loop condition of CalculateSGP4Positions.
LoopCond(cur, end) == ~After(cur, end)

\* (a check that lets a zero interval through)
RangeErrorZeroAllowed(start, end, step) ==
    IF After(start, end) THEN "start time must be before end time"
    ELSE IF step < 0 THEN "interval must be positive"
    ELSE NoError

\* The two checks in front of the loop: the error returned, or NoError.
RangeError(start, end, step) ==
    IF After(start, end) THEN "start time must be before end time"
    ELSE IF step <= 0 THEN "interval must be positive"
    ELSE NoError

\* (a failure that returns what was collected, and no error)
SampleFailureSwallowed(acc, cur, e) == [positions |-> acc, err |-> NoError]

\* The return on a failed evaluation: nil and the wrapped error.
SampleFailure(acc, cur, e) ==
    [positions |-> <<>>, err |-> <<"failed to calculate position at", cur, e>>]

(***************************************************************************)
(* Inputs of the sampler.                                                  *)
(***************************************************************************)
\* Instants are 0..MaxTime, intervals -1..MaxInterval.
MaxTime == 5

MaxInterval == 3

\* The last instant a time.Time can hold.  The sampler is checked over the
\* instants 0..MaxTime, where no sum passes it, and over all instants.
MaxInstant == MaxTime + MaxInterval

\* t.Add(d) for d > 0: the sum, and the last instant where the sum passes it.
Add(t, d) == IF t + d > MaxInstant THEN MaxInstant ELSE t + d

\* The positions the memory holds; append fails beyond.
MaxSamples == MaxInstant + 2

SamplerLineOneInputs ==
    {testTLELine1,
     <<" ">> \o testTLELine1 \o <<"\t">>,
     SubSeq(testTLELine1, 1, 68),
     [testTLELine1 EXCEPT ![1] = "3"]}

SamplerLineTwoInputs ==
    {testTLELine2,
     <<"I", "N", "V", "A", "L", "I", "D">>,
     [testTLELine2 EXCEPT ![2] = "5"]}

(***************************************************************************)
(* The look angles, CalculateSGP4PositionWithObserver.  The library's      *)
(* vectors (satellite.Vector3) are points of a small integer grid; the     *)
(* observer is given by the point satellite.LLAToECI puts it at.           *)
(***************************************************************************)
\* Coordinates are 0..MaxCoord.
MaxCoord == 1

Points == {<<x, y, z>> : x \in 0..MaxCoord, y \in 0..MaxCoord, z \in 0..MaxCoord}

Origin == <<0, 0, 0>>

\* What satellite.ECIToLookAngles may return in Az and in El: a number or NaN.
LibAngles == {"finite", "NaN"}

NoAngles == [Az |-> "none", El |-> "none"]

\* dx*dx + dy*dy + dz*dz
SumOfSquares(p, obsECI) ==
    LET dx == p[1] - obsECI[1]
        dy == p[2] - obsECI[2]
        dz == p[3] - obsECI[3]
    IN dx * dx + dy * dy + dz * dz

\* rangeKm := math.Sqrt(dx*dx+dy*dy+dz*dz) / 1000.0, kept as the radicand: the
\* range is 0 exactly when the radicand is 0.
RangeKm(p, obsECI) == [sqrtOf |-> SumOfSquares(p, obsECI), dividedBy |-> 1000]

\* (a range-rate taken from the range)
LookAnglesResultWithRate(angles, rangeKm) ==
    [Azimuth |-> angles.Az, Elevation |-> angles.El,
     Range |-> rangeKm, RangeRate |-> rangeKm]

\* LookAngles{Azimuth: ..., Elevation: ..., Range: rangeKm, RangeRate: 0.0};
\* the factor RAD2DEG maps a number to a number and NaN to NaN.
LookAnglesResult(angles, rangeKm) ==
    [Azimuth |-> angles.Az, Elevation |-> angles.El,
     Range |-> rangeKm, RangeRate |-> ZeroF]

\* SGP4PositionResult{}
ZeroResult ==
    [Position |-> ZeroPosition,
     LookAngles |-> [Azimuth |-> ZeroF, Elevation |-> ZeroF,
                     Range |-> ZeroF, RangeRate |-> ZeroF]]

NoPosition == [pos |-> ZeroPosition, err |-> "not returned"]

NoResult == [result |-> ZeroResult, err |-> "not returned"]

\* Line 2 of the tests with a mean motion of 0 and with a negative mean motion.
ReplaceAt(s, i, t) == SubSeq(s, 1, i) \o t \o SubSeq(s, i + Len(t) + 1, Len(s))

zeroMeanMotionLine2 ==
    ReplaceAt(testTLELine2, 52,
              <<"0", "0", ".", "0", "0", "0", "0", "0", "0", "0", "0">>)

negativeMeanMotionLine2 ==
    ReplaceAt(testTLELine2, 52,
              <<"-", "5", ".", "7", "0", "4", "0", "6", "8", "5", "6">>)

\* The lines of the tests, with white space around them, cut to 68
\* characters (with and without a trailing blank), with a wrong first character.
EvalLineOneInputs ==
    SamplerLineOneInputs
        \cup {<<" ", " ">> \o testTLELine1 \o <<" ", " ">>,
              SubSeq(testTLELine1, 1, 68) \o <<" ">>}

EvalLineTwoInputs ==
    SamplerLineTwoInputs
        \cup {zeroMeanMotionLine2, negativeMeanMotionLine2,
              <<" ", " ">> \o testTLELine2 \o <<" ", " ">>}

(***************************************************************************)
(* The batch download, BatchDownloadTLE: one goroutine per satellite, a     *)
(* sync.WaitGroup, a sync.Mutex around the stores into results.            *)
(***************************************************************************)
\* A batch has at most MaxSatellites satellites.
MaxSatellites == 2

\* The goroutines, named by the index handed to them.
Workers == 0..(MaxSatellites - 1)

SatelliteNames == {"ISS", "HST", "NOAA"}

\* The holder of the sync.Mutex: no goroutine.
Unlocked == {}

\* BatchTLEResult{}
ZeroBatchResult == [Satellite |-> "", Success |-> FALSE, TLE |-> "TLE{}", Error |-> NoError]

\* The ways through a worker, named by the error stored ("nil" on success).
FailurePaths ==
    {"QuerySpaceTrack error", "insufficient TLE data", "invalid TLE format",
     "insufficient fields in TLE", "failed to parse TLE data"}

ExitPaths == FailurePaths \cup {NoError}

\* (a worker that sets Success before its last check)
WorkerResultOfSuccessEarly(satellite, path) ==
    IF path \in {NoError, "failed to parse TLE data"}
    THEN [Satellite |-> satellite, Success |-> TRUE, TLE |-> "tle", Error |-> path]
    ELSE [Satellite |-> satellite, Success |-> FALSE, TLE |-> "TLE{}", Error |-> path]

\* The worker's local `result` when it reaches its store.
WorkerResultOf(satellite, path) ==
    IF path = NoError
    THEN [Satellite |-> satellite, Success |-> TRUE, TLE |-> "tle", Error |-> NoError]
    ELSE [Satellite |-> satellite, Success |-> FALSE, TLE |-> "TLE{}", Error |-> path]

\* results[idx] = result
StoreResult(res, idx, result) == [res EXCEPT ![idx + 1] = result]

\* (wg.Wait() that does not wait)
WaitReleasedAtOnce(counter) == TRUE

\* wg.Wait() returns when the counter is 0.
WaitReleased(counter) == counter = 0

\* The count of the summary loop.
CountSuccessful(res) == Cardinality({k \in 1..Len(res) : res[k].Success})

BatchNotReturned == [nil |-> FALSE, results |-> <<>>]

\* `return nil`
NilResults == [nil |-> TRUE, results |-> <<>>]

\* Sequences of distinct satellites, of length 0..MaxSatellites.
SatelliteInputs ==
    UNION {{q \in [1..n -> SatelliteNames] : \A a, b \in 1..n : q[a] = q[b] => a = b}
           : n \in 0..MaxSatellites}

(***************************************************************************)
(* The favorites store: favorites.json, read and rewritten whole by every   *)
(* call.  A FavoriteSatellite is kept by its name and NORAD ID.            *)
(***************************************************************************)
\* A store has at most MaxFavorites entries.
MaxFavorites == 3

FavoriteNames == {"ISS", "HST"}

NoradIDs == {"25544", "44700", "25338"}

FavoriteSatellites == [SatelliteName : FavoriteNames, NORADID : NoradIDs]

\* json.MarshalIndent(FavoritesList{Favorites: favorites}): a nil slice is
\* written as null, any other as the array of its entries.
MarshalFavorites(list, isNil) ==
    [null |-> isNil, items |-> IF isNil THEN <<>> ELSE list]

\* json.Unmarshal into FavoritesList: null leaves the slice nil (no entries).
UnmarshalFavorites(data) == IF data.null THEN <<>> ELSE data.items

\* No favorites.json (os.IsNotExist).
NoFile == [exists |-> FALSE, data |-> MarshalFavorites(<<>>, TRUE)]

LoadFavorites(file) ==
    IF ~file.exists THEN <<>> ELSE UnmarshalFavorites(file.data)

SaveFavorites(list, isNil) ==
    [exists |-> TRUE, data |-> MarshalFavorites(list, isNil)]

\* (a search that looks at the first entry only)
AlreadyInFavoritesFirstOnly(list, noradID) ==
    Len(list) > 0 /\ list[1].NORADID = noradID

\* for _, fav := range favorites { if fav.NORADID == noradID ... }
AlreadyInFavorites(list, noradID) ==
    \E k \in 1..Len(list) : list[k].NORADID = noradID

\* (a loop that drops the first matching entry only)
RECURSIVE KeepOthersAfterFirst(_, _)
KeepOthersAfterFirst(list, noradID) ==
    IF list = <<>> THEN <<>>
    ELSE IF Head(list).NORADID = noradID THEN Tail(list)
    ELSE <<Head(list)>> \o KeepOthersAfterFirst(Tail(list), noradID)

\* updatedFavorites: the entries whose NORADID is not noradID, appended in order.
RECURSIVE KeepOthers(_, _)
KeepOthers(list, noradID) ==
    IF list = <<>> THEN <<>>
    ELSE IF Head(list).NORADID # noradID
         THEN <<Head(list)>> \o KeepOthers(Tail(list), noradID)
         ELSE KeepOthers(Tail(list), noradID)

IsFavorite(file, noradID) == AlreadyInFavorites(LoadFavorites(file), noradID)

NoCall ==
    [fn |-> "none", satName |-> "", noradID |-> "", err |-> NoError,
     result |-> FALSE, wrote |-> FALSE]

RECURSIVE SeqsOver(_, _)
SeqsOver(S, n) ==
    IF n = 0 THEN {<<>>}
    ELSE LET shorter == SeqsOver(S, n - 1)
         IN shorter \cup {Append(q, x) : q \in {r \in shorter : Len(r) = n - 1}, x \in S}

NoDuplicates(list) ==
    \A a, b \in 1..Len(list) : list[a].NORADID = list[b].NORADID => a = b

\* The files a call may find: none, one with null, one with a list.
StoreInputs ==
    {NoFile, SaveFavorites(<<>>, TRUE)}
        \cup {SaveFavorites(q, FALSE) : q \in SeqsOver(FavoriteSatellites, MaxFavorites)}

CleanStoreInputs == {f \in StoreInputs : NoDuplicates(LoadFavorites(f))}

(***************************************************************************)
(* CompareSatellites: the counts and the list of satellites.  The averages  *)
(* and the altitude range, computed from the records' floats, are left out.*)
(***************************************************************************)
\* A slice of results has at most MaxResults elements.
MaxResults == 3

\* BatchComparisonResult{}
ZeroComparison ==
    [Satellites |-> <<>>, Results |-> <<>>,
     Summary |-> [TotalProcessed |-> 0, Successful |-> 0, Failed |-> 0]]

\* (a loop body that lists the satellite of every result)
CompareStepListAll(comparison, result) ==
    IF result.Success
    THEN [comparison EXCEPT !.Summary.Successful = @ + 1,
                            !.Satellites = Append(@, result.Satellite)]
    ELSE [comparison EXCEPT !.Summary.Failed = @ + 1,
                            !.Satellites = Append(@, result.Satellite)]

\* The body of `for _, result := range results`.
CompareStep(comparison, result) ==
    IF result.Success
    THEN [comparison EXCEPT !.Summary.Successful = @ + 1,
                            !.Satellites = Append(@, result.Satellite)]
    ELSE [comparison EXCEPT !.Summary.Failed = @ + 1]

RECURSIVE CompareLoop(_, _)
CompareLoop(comparison, rest) ==
    IF rest = <<>> THEN comparison
    ELSE CompareLoop(CompareStep(comparison, Head(rest)), Tail(rest))

CompareSatellites(res) ==
    IF Len(res) = 0 THEN ZeroComparison
    ELSE CompareLoop([Satellites |-> <<>>, Results |-> res,
                      Summary |-> [TotalProcessed |-> Len(res),
                                   Successful |-> 0, Failed |-> 0]],
                     res)

\* The results a batch can hold: a success or a failure for a satellite.
ResultInputs ==
    SeqsOver({WorkerResultOf(sat, path) :
                  sat \in SatelliteNames, path \in {NoError, "invalid TLE format"}},
             MaxResults)

(***************************************************************************)
(* ProgressBar.  Totals and progress values are small integers around 0.   *)
(***************************************************************************)
\* Totals are -1..MaxTotal, the argument of Update is -1..MaxTotal + 1.
MaxTotal == 3

NewProgressBar(total) ==
    [total |-> total, current |-> 0, width |-> 40, completed |-> FALSE]

Abs(n) == IF n < 0 THEN -n ELSE n

\* render: whether strings.Repeat gets a negative count and panics.  filled is
\* int(width * current / total), truncated towards 0, and empty is width -
\* filled.  With total = 0 the quotient is NaN or an infinity and its
\* conversion to int depends on the build: for NaN either outcome is possible.
RenderPanics(bar) ==
    IF bar.total = 0
    THEN IF bar.current = 0 THEN {TRUE, FALSE} ELSE {TRUE}
    ELSE LET num == bar.width * Abs(bar.current)
             den == Abs(bar.total)
             sameSign == (bar.current < 0) = (bar.total < 0)
         IN IF bar.current = 0 THEN {FALSE}
            ELSE IF sameSign THEN {num >= (bar.width + 1) * den}
            ELSE {num >= den}

\* (no cap)
CapNever(bar) == bar

\* if pb.current > pb.total { pb.current = pb.total }
Cap(bar) == IF bar.current > bar.total THEN [bar EXCEPT !.current = bar.total] ELSE bar

\* (a bar that can be updated after Complete)
FrozenNever(bar) == FALSE

\* if pb.completed { return }
Frozen(bar) == bar.completed

\* The field updates of the four methods; render follows when `rendered`.
Update(bar, n) ==
    IF Frozen(bar) THEN [pb |-> bar, rendered |-> FALSE]
    ELSE [pb |-> Cap([bar EXCEPT !.current = n]), rendered |-> TRUE]

Increment(bar) ==
    IF Frozen(bar) THEN [pb |-> bar, rendered |-> FALSE]
    ELSE [pb |-> Cap([bar EXCEPT !.current = bar.current + 1]), rendered |-> TRUE]

SetTotal(bar, total) ==
    [pb |-> Cap([bar EXCEPT !.total = total]), rendered |-> TRUE]

Complete(bar) ==
    IF bar.completed THEN [pb |-> bar, rendered |-> FALSE]
    ELSE [pb |-> [bar EXCEPT !.current = bar.total, !.completed = TRUE],
          rendered |-> TRUE]

(***************************************************************************)
(* Spinner: Start, Stop and the animation goroutine, with the two          *)
(* unbuffered channels stopChan and doneChan.  A send and its receive are   *)
(* one step of both goroutines.                                            *)
(***************************************************************************)
\* At most MaxGoroutines animation goroutines are alive (the calling
\* goroutine can call Start again before an earlier one has returned).
MaxGoroutines == 3

\* []string{"⠋", ...}: len(s.chars)
SpinnerChars == <<"a", "b", "c", "d", "e", "f", "g", "h", "i", "j">>

\* NewSpinner
NewSpinner == [running |-> FALSE, index |-> 0]

\* The animation goroutines by the place they are at: in the select of the
\* loop, before `s.doneChan <- true`, before `return` (with the deferred
\* ticker.Stop()).
NoGoroutines == [loop |-> 0, ack |-> 0, return |-> 0]

Alive(g) == g.loop + g.ack + g.return

\* (a Start that spawns also when the spinner runs)
StartReturnsAtOnceNever(sp) == FALSE

\* if s.running { return }
StartReturnsAtOnce(sp) == sp.running

\* if !s.running { return }
StopReturnsAtOnce(sp) == ~sp.running

\* s.index = (s.index + 1) % len(s.chars)
NextIndex(index) == (index + 1) % Len(SpinnerChars)

NoSpinnerCall == [fn |-> "none", wasRunning |-> FALSE]

(***************************************************************************)
(* The selection string "<name> (<norad>)" and extractNorad.               *)
(***************************************************************************)
\* Names of up to MaxNameLen characters are tried, and some catalogue names.
MaxNameLen == 2

\* strings.Index(str, substr) for a substr of one character: the Go index
\* of its first occurrence, -1 if there is none.
Index(str, c) ==
    IF \E i \in 1..Len(str) : str[i] = c
    THEN (CHOOSE i \in 1..Len(str) :
              str[i] = c /\ \A j \in 1..(i - 1) : str[j] # c) - 1
    ELSE -1

\* fmt.Sprintf("%s (%s)", name, norad)
SelectionString(name, id) == name \o <<" ", "(">> \o id \o <<")">>

\* extractNorad
extractNorad(str) ==
    LET start == Index(str, "(")
        end == Index(str, ")")
    IN IF start = -1 \/ end = -1 \/ start >= end
       THEN <<>>
       ELSE Slice(str, start + 1, end)

\* SATNAME of the catalogue, SatelliteName of a favorite
SelectionNames ==
    SeqsOver({"I", "(", ")"}, MaxNameLen)
        \cup {<<"I", "S", "S", " ", "(", "Z", "A", "R", "Y", "A", ")">>,
              <<"N", "O", "A", "A", " ", "1", "5">>}

\* NORAD_CAT_ID of the catalogue, NORADID of a favorite
SelectionNoradIDs == SeqsOver({"2", "5"}, 2) \cup {<<"2", "5", "5", "4", "4">>}

(***************************************************************************)
(* State                                                                   *)
(***************************************************************************)
VARIABLES
    \* ConstructTLE's arguments, its result, and its caller's verdict
    one, two, three, tle, panicked, parsingFailed, parserPc,
    \* CalculateSGP4Positions' arguments, locals, calls made and return value
    line1, line2, startTime, endTime, interval,
    currentTime, positions, calls, returned, samplerPc,
    \* the single-epoch evaluation called (CalculateSGP4Position or
    \* CalculateSGP4PositionWithObserver), its arguments, the results of the
    \* library, the number of calls of satellite.TLEToSat, and its return value
    evalFn, evalLine1, evalLine2, targetTime, observer,
    satPosition, position, lookAngles, libCalls, evalReturned, evalPc,
    \* BatchDownloadTLE's argument, its locals, each worker's position and
    \* local result, the stores into results in the order they happened, the
    \* counter value each worker printed, and the return value
    satellites, results, wg, mu, completed, loopIndex, workerPc, workerResult,
    storeLog, printed, successful, batchReturned, batchPc,
    \* the file favorites.json, the list the last call loaded from it, and the
    \* last call with what it returned
    favoritesFile, favorites, favCall,
    \* CompareSatellites' argument and its return value
    compareResults, comparison, comparePc,
    \* a ProgressBar, and the last call made on it with the bar before the call
    pb, pbCall,
    \* a Spinner's fields, its animation goroutines, the last call of Start or
    \* Stop, and the place the calling goroutine is at
    spinner, goroutines, spinnerCall, spinnerPc,
    \* a satellite's name and NORAD ID, the selection string built of them, the
    \* NORAD ID the caller extracted, and the place the caller is at
    selName, selNorad, selection, norad, extractPc

parserVars == <<one, two, three, tle, panicked, parsingFailed, parserPc>>

samplerVars == <<line1, line2, startTime, endTime, interval,
                 currentTime, positions, calls, returned, samplerPc>>

evalVars == <<evalFn, evalLine1, evalLine2, targetTime, observer,
              satPosition, position, lookAngles, libCalls, evalReturned, evalPc>>

batchVars == <<satellites, results, wg, mu, completed, loopIndex, workerPc,
               workerResult, storeLog, printed, successful, batchReturned, batchPc>>

favVars == <<favoritesFile, favorites, favCall>>

compareVars == <<compareResults, comparison, comparePc>>

pbVars == <<pb, pbCall>>

spinnerVars == <<spinner, goroutines, spinnerCall, spinnerPc>>

extractVars == <<selName, selNorad, selection, norad, extractPc>>

vars == <<parserVars, samplerVars, evalVars, batchVars, favVars, compareVars, pbVars, spinnerVars, extractVars>>

NotReturned == [positions |-> <<>>, err |-> "not returned"]

ParserIdle ==
    /\ one = <<>> /\ two = <<>> /\ three = <<>>
    /\ tle = TLE /\ panicked = FALSE /\ parsingFailed = FALSE
    /\ parserPc = "idle"

SamplerIdle ==
    /\ line1 = <<>> /\ line2 = <<>>
    /\ startTime = 0 /\ endTime = 0 /\ interval = 0
    /\ currentTime = 0 /\ positions = <<>> /\ calls = <<>>
    /\ returned = NotReturned
    /\ samplerPc = "idle"

EvalIdle ==
    /\ evalFn = "none" /\ evalLine1 = <<>> /\ evalLine2 = <<>>
    /\ targetTime = 0 /\ observer = Origin
    /\ satPosition = NoPosition /\ position = Origin /\ lookAngles = NoAngles
    /\ libCalls = 0 /\ evalReturned = NoResult
    /\ evalPc = "idle"

BatchIdle ==
    /\ satellites = <<>> /\ results = <<>>
    /\ wg = 0 /\ mu = Unlocked /\ completed = 0 /\ loopIndex = 0
    /\ workerPc = [w \in Workers |-> "none"]
    /\ workerResult = [w \in Workers |-> ZeroBatchResult]
    /\ storeLog = <<>>
    /\ printed = [w \in Workers |-> 0]
    /\ successful = 0
    /\ batchReturned = BatchNotReturned
    /\ batchPc = "idle"

FavIdle ==
    /\ favoritesFile = NoFile /\ favorites = <<>> /\ favCall = NoCall
CompareIdle ==
    /\ compareResults = <<>> /\ comparison = ZeroComparison /\ comparePc = "idle"
PbIdle ==
    /\ pb = NewProgressBar(0)
    /\ pbCall = [fn |-> "none", arg |-> 0, before |-> NewProgressBar(0),
                 panicked |-> FALSE]
SpinnerIdle ==
    /\ spinner = NewSpinner /\ goroutines = NoGoroutines
    /\ spinnerCall = NoSpinnerCall /\ spinnerPc = "none"
ExtractIdle ==
    /\ selName = <<>> /\ selNorad = <<>> /\ selection = <<>> /\ norad = <<>>
    /\ extractPc = "none"
(***************************************************************************)
(* The parser and its caller                                               *)
(***************************************************************************)
ParserInit ==
    /\ one \in NameInputs
    /\ two \in LineOneInputs
    /\ three \in LineTwoInputs
    /\ tle = TLE
    /\ panicked = FALSE
    /\ parsingFailed = FALSE
    /\ parserPc = "call"
    /\ SamplerIdle
    /\ EvalIdle
    /\ BatchIdle
    /\ FavIdle
    /\ CompareIdle
    /\ PbIdle
    /\ SpinnerIdle
    /\ ExtractIdle

\* output = ConstructTLE(name, lineOne, lineTwo)
ConstructTLECall ==
    /\ parserPc = "call"
    /\ LET r == ConstructTLE(one, two, three)
       IN /\ tle' = r.tle
          /\ panicked' = r.panic
          /\ parserPc' = IF r.panic THEN "panic" ELSE "returned"
    /\ UNCHANGED <<one, two, three, parsingFailed, samplerVars, evalVars, batchVars, favVars, compareVars, pbVars, spinnerVars, extractVars>>

\* The caller's validation of the record.
ValidateParsing ==
    /\ parserPc = "returned"
    /\ parsingFailed' = ParsingFailed(two, three, tle)
    /\ parserPc' = "validated"
    /\ UNCHANGED <<one, two, three, tle, panicked, samplerVars, evalVars, batchVars, favVars, compareVars, pbVars, spinnerVars, extractVars>>

ParserNext == ConstructTLECall \/ ValidateParsing

ParserSpec == ParserInit /\ [][ParserNext]_vars

(***************************************************************************)
(* The sampler, CalculateSGP4Positions                                     *)
(***************************************************************************)
SamplerInit ==
    /\ line1 \in SamplerLineOneInputs
    /\ line2 \in SamplerLineTwoInputs
    /\ startTime \in 0..MaxTime
    /\ endTime \in 0..MaxTime
    /\ interval \in -1..MaxInterval
    /\ currentTime = 0
    /\ positions = <<>>
    /\ calls = <<>>
    /\ returned = NotReturned
    /\ samplerPc = "entry"
    /\ ParserIdle
    /\ EvalIdle
    /\ BatchIdle
    /\ FavIdle
    /\ CompareIdle
    /\ PbIdle
    /\ SpinnerIdle
    /\ ExtractIdle

\* The checks of the arguments, then `currentTime := startTime`.
SamplerEnter ==
    /\ samplerPc = "entry"
    /\ LET e == RangeError(startTime, endTime, interval)
       IN IF e # NoError
          THEN /\ returned' = [positions |-> <<>>, err |-> e]
               /\ samplerPc' = "done"
               /\ UNCHANGED currentTime
          ELSE /\ currentTime' = startTime
               /\ samplerPc' = "loop"
               /\ UNCHANGED returned
    /\ UNCHANGED <<line1, line2, startTime, endTime, interval, positions, calls,
                   parserVars, evalVars, batchVars, favVars, compareVars, pbVars, spinnerVars, extractVars>>

\* One iteration of the loop.
SamplerIterate ==
    /\ samplerPc = "loop"
    /\ LoopCond(currentTime, endTime)
    /\ Len(positions) < MaxSamples
    /\ calls' = Append(calls, currentTime)
    /\ LET r == CalculateSGP4Position(line1, line2, currentTime)
       IN IF r.err # NoError
          THEN /\ returned' = SampleFailure(positions, currentTime, r.err)
               /\ samplerPc' = "done"
               /\ UNCHANGED <<positions, currentTime>>
          ELSE /\ positions' = Append(positions, r.pos)
               /\ currentTime' = Add(currentTime, interval)
               /\ UNCHANGED <<returned, samplerPc>>
    /\ UNCHANGED <<line1, line2, startTime, endTime, interval, parserVars, evalVars, batchVars, favVars, compareVars, pbVars, spinnerVars, extractVars>>

\* `return positions, nil` once the loop condition fails.
SamplerReturn ==
    /\ samplerPc = "loop"
    /\ ~LoopCond(currentTime, endTime)
    /\ returned' = [positions |-> positions, err |-> NoError]
    /\ samplerPc' = "done"
    /\ UNCHANGED <<line1, line2, startTime, endTime, interval,
                   currentTime, positions, calls, parserVars, evalVars, batchVars, favVars, compareVars, pbVars, spinnerVars, extractVars>>

SamplerNext == SamplerEnter \/ SamplerIterate \/ SamplerReturn

SamplerSpec == SamplerInit /\ [][SamplerNext]_vars

\* The sampler over all instants a time.Time can hold.
SamplerWideInit ==
    /\ line1 \in SamplerLineOneInputs
    /\ line2 \in SamplerLineTwoInputs
    /\ startTime \in 0..MaxInstant
    /\ endTime \in 0..MaxInstant
    /\ interval \in -1..MaxInterval
    /\ currentTime = 0
    /\ positions = <<>>
    /\ calls = <<>>
    /\ returned = NotReturned
    /\ samplerPc = "entry"
    /\ ParserIdle
    /\ EvalIdle
    /\ BatchIdle
    /\ FavIdle
    /\ CompareIdle
    /\ PbIdle
    /\ SpinnerIdle
    /\ ExtractIdle

\* append(positions, pos) with the memory used up: the runtime ends the
\* program ("fatal error: runtime: out of memory"), the call does not return.
SamplerOutOfMemory ==
    /\ samplerPc = "loop"
    /\ LoopCond(currentTime, endTime)
    /\ Len(positions) = MaxSamples
    /\ CalculateSGP4Position(line1, line2, currentTime).err = NoError
    /\ calls' = Append(calls, currentTime)
    /\ samplerPc' = "out of memory"
    /\ UNCHANGED <<line1, line2, startTime, endTime, interval, currentTime, positions, returned,
                   parserVars, evalVars, batchVars, favVars, compareVars, pbVars, spinnerVars, extractVars>>

SamplerWideNext == SamplerNext \/ SamplerOutOfMemory

\* The one goroutine of the call runs on as long as it has a step to take.
SamplerFairSpec ==
    /\ SamplerWideInit
    /\ [][SamplerWideNext]_vars
    /\ WF_vars(SamplerWideNext)

(***************************************************************************)
(* The single-epoch evaluation, alone and with an observer                 *)
(***************************************************************************)
EvalInit ==
    /\ evalFn \in {"CalculateSGP4Position", "CalculateSGP4PositionWithObserver"}
    /\ evalLine1 \in EvalLineOneInputs
    /\ evalLine2 \in EvalLineTwoInputs
    /\ targetTime \in 0..MaxTime
    /\ observer \in IF evalFn = "CalculateSGP4PositionWithObserver"
                    THEN Points ELSE {Origin}
    /\ satPosition = NoPosition
    /\ position = Origin
    /\ lookAngles = NoAngles
    /\ libCalls = 0
    /\ evalReturned = NoResult
    /\ evalPc = "entry"
    /\ ParserIdle
    /\ SamplerIdle
    /\ BatchIdle
    /\ FavIdle
    /\ CompareIdle
    /\ PbIdle
    /\ SpinnerIdle
    /\ ExtractIdle

\* CalculateSGP4Position up to the library call: the trimming and the checks.
EvalValidate ==
    /\ evalPc = "entry"
    /\ LET e == ValidateLines(TrimSpace(evalLine1), TrimSpace(evalLine2))
       IN IF e # NoError
          THEN /\ satPosition' = [pos |-> ZeroPosition, err |-> e]
               /\ evalReturned' = [result |-> ZeroResult, err |-> e]
               /\ evalPc' = "done"
          ELSE /\ evalPc' = "library"
               /\ UNCHANGED <<satPosition, evalReturned>>
    /\ UNCHANGED <<evalFn, evalLine1, evalLine2, targetTime, observer,
                   position, lookAngles, libCalls, parserVars, samplerVars, batchVars, favVars, compareVars, pbVars, spinnerVars, extractVars>>

\* satellite.TLEToSat and satellite.Propagate, and the return of
\* CalculateSGP4Position; the library gives a vector and no error.
EvalPropagate ==
    /\ evalPc = "library"
    /\ libCalls' = libCalls + 1
    /\ \E p \in Points : position' = p
    /\ satPosition' = CalculateSGP4Position(evalLine1, evalLine2, targetTime)
    /\ IF evalFn = "CalculateSGP4Position"
       THEN /\ evalReturned' = [result |-> [ZeroResult EXCEPT !.Position = satPosition'.pos],
                                err |-> satPosition'.err]
            /\ evalPc' = "done"
       ELSE /\ evalPc' = "observer"
            /\ UNCHANGED evalReturned
    /\ UNCHANGED <<evalFn, evalLine1, evalLine2, targetTime, observer,
                   lookAngles, parserVars, samplerVars, batchVars, favVars, compareVars, pbVars, spinnerVars, extractVars>>

\* The rest of CalculateSGP4PositionWithObserver: the library once more (the
\* same vector), the observer's vector, the look angles, the range.
EvalLookAngles ==
    /\ evalPc = "observer"
    /\ libCalls' = libCalls + 1
    /\ \E az \in LibAngles, el \in LibAngles : lookAngles' = [Az |-> az, El |-> el]
    /\ evalReturned' =
           [result |-> [Position |-> satPosition.pos,
                        LookAngles |-> LookAnglesResult(lookAngles',
                                                        RangeKm(position, observer))],
            err |-> NoError]
    /\ evalPc' = "done"
    /\ UNCHANGED <<evalFn, evalLine1, evalLine2, targetTime, observer,
                   satPosition, position, parserVars, samplerVars, batchVars, favVars, compareVars, pbVars, spinnerVars, extractVars>>

EvalNext == EvalValidate \/ EvalPropagate \/ EvalLookAngles

EvalSpec == EvalInit /\ [][EvalNext]_vars

(***************************************************************************)
(* The batch download                                                      *)
(***************************************************************************)
BatchInit ==
    /\ satellites \in SatelliteInputs
    /\ results = <<>>
    /\ wg = 0
    /\ mu = Unlocked
    /\ completed = 0
    /\ loopIndex = 0
    /\ workerPc = [w \in Workers |-> "none"]
    /\ workerResult = [w \in Workers |-> ZeroBatchResult]
    /\ storeLog = <<>>
    /\ printed = [w \in Workers |-> 0]
    /\ successful = 0
    /\ batchReturned = BatchNotReturned
    /\ batchPc = "entry"
    /\ ParserIdle
    /\ SamplerIdle
    /\ EvalIdle
    /\ FavIdle
    /\ CompareIdle
    /\ PbIdle
    /\ SpinnerIdle
    /\ ExtractIdle

\* The empty batch, the login, and `results := make([]BatchTLEResult, len(satellites))`.
BatchEnter ==
    /\ batchPc = "entry"
    /\ \E loginOk \in BOOLEAN :
         IF Len(satellites) = 0 \/ ~loginOk
         THEN /\ batchReturned' = NilResults
              /\ batchPc' = "returned"
              /\ UNCHANGED results
         ELSE /\ results' = [k \in 1..Len(satellites) |-> ZeroBatchResult]
              /\ batchPc' = "spawn"
              /\ UNCHANGED batchReturned
    /\ UNCHANGED <<satellites, wg, mu, completed, loopIndex, workerPc, workerResult,
                   storeLog, printed, successful,
                   parserVars, samplerVars, evalVars, favVars, compareVars, pbVars, spinnerVars, extractVars>>

\* One iteration of `for i, sat := range satellites`: wg.Add(1) and the go
\* statement.
BatchSpawn ==
    /\ batchPc = "spawn"
    /\ loopIndex < Len(satellites)
    /\ wg' = wg + 1
    /\ workerPc' = [workerPc EXCEPT ![loopIndex] = "spawned"]
    /\ loopIndex' = loopIndex + 1
    /\ UNCHANGED <<satellites, results, mu, completed, workerResult, storeLog,
                   printed, successful, batchReturned, batchPc,
                   parserVars, samplerVars, evalVars, favVars, compareVars, pbVars, spinnerVars, extractVars>>

\* The end of the loop.
BatchSpawned ==
    /\ batchPc = "spawn"
    /\ ~(loopIndex < Len(satellites))
    /\ batchPc' = "wait"
    /\ UNCHANGED <<satellites, results, wg, mu, completed, loopIndex, workerPc,
                   workerResult, storeLog, printed, successful, batchReturned,
                   parserVars, samplerVars, evalVars, favVars, compareVars, pbVars, spinnerVars, extractVars>>

\* The worker up to its store: the query, the splitting of the answer, the
\* parse; what they return decides the path.
WorkerRun(idx) ==
    /\ workerPc[idx] = "spawned"
    /\ \E path \in ExitPaths :
         workerResult' = [workerResult EXCEPT
                              ![idx] = WorkerResultOf(At(satellites, idx), path)]
    /\ workerPc' = [workerPc EXCEPT ![idx] = "lock"]
    /\ UNCHANGED <<satellites, results, wg, mu, completed, loopIndex, storeLog,
                   printed, successful, batchReturned, batchPc,
                   parserVars, samplerVars, evalVars, favVars, compareVars, pbVars, spinnerVars, extractVars>>

\* mu.Lock()
WorkerLock(idx) ==
    /\ workerPc[idx] = "lock"
    /\ mu = Unlocked
    /\ mu' = {idx}
    /\ workerPc' = [workerPc EXCEPT ![idx] = "store"]
    /\ UNCHANGED <<satellites, results, wg, completed, loopIndex, workerResult,
                   storeLog, printed, successful, batchReturned, batchPc,
                   parserVars, samplerVars, evalVars, favVars, compareVars, pbVars, spinnerVars, extractVars>>

\* results[idx] = result; completed++
WorkerStore(idx) ==
    /\ workerPc[idx] = "store"
    /\ results' = StoreResult(results, idx, workerResult[idx])
    /\ storeLog' = Append(storeLog, [worker |-> idx, slot |-> idx])
    /\ completed' = completed + 1
    /\ workerPc' = [workerPc EXCEPT ![idx] = "unlock"]
    /\ UNCHANGED <<satellites, wg, mu, loopIndex, workerResult,
                   printed, successful, batchReturned, batchPc,
                   parserVars, samplerVars, evalVars, favVars, compareVars, pbVars, spinnerVars, extractVars>>

\* mu.Unlock(), and `return` on a failure path.
WorkerUnlock(idx) ==
    /\ workerPc[idx] = "unlock"
    /\ mu' = Unlocked
    /\ workerPc' = [workerPc EXCEPT
                        ![idx] = IF workerResult[idx].Success THEN "print" ELSE "exit"]
    /\ UNCHANGED <<satellites, results, wg, completed, loopIndex, workerResult,
                   storeLog, printed, successful, batchReturned, batchPc,
                   parserVars, samplerVars, evalVars, favVars, compareVars, pbVars, spinnerVars, extractVars>>

\* fmt.Printf("[%d/%d] Downloaded: ...", completed, ...), after the unlock.
WorkerPrint(idx) ==
    /\ workerPc[idx] = "print"
    /\ printed' = [printed EXCEPT ![idx] = completed]
    /\ workerPc' = [workerPc EXCEPT ![idx] = "exit"]
    /\ UNCHANGED <<satellites, results, wg, mu, completed, loopIndex, workerResult,
                   storeLog, successful, batchReturned, batchPc,
                   parserVars, samplerVars, evalVars, favVars, compareVars, pbVars, spinnerVars, extractVars>>

\* The deferred wg.Done().
WorkerDone(idx) ==
    /\ workerPc[idx] = "exit"
    /\ wg' = wg - 1
    /\ workerPc' = [workerPc EXCEPT ![idx] = "done"]
    /\ UNCHANGED <<satellites, results, mu, completed, loopIndex, workerResult,
                   storeLog, printed, successful, batchReturned, batchPc,
                   parserVars, samplerVars, evalVars, favVars, compareVars, pbVars, spinnerVars, extractVars>>

\* wg.Wait()
BatchWait ==
    /\ batchPc = "wait"
    /\ WaitReleased(wg)
    /\ batchPc' = "summary"
    /\ UNCHANGED <<satellites, results, wg, mu, completed, loopIndex, workerPc,
                   workerResult, storeLog, printed, successful, batchReturned,
                   parserVars, samplerVars, evalVars, favVars, compareVars, pbVars, spinnerVars, extractVars>>

\* The summary loop over results, and `return results`.
BatchReturn ==
    /\ batchPc = "summary"
    /\ successful' = CountSuccessful(results)
    /\ batchReturned' = [nil |-> FALSE, results |-> results]
    /\ batchPc' = "returned"
    /\ UNCHANGED <<satellites, results, wg, mu, completed, loopIndex, workerPc,
                   workerResult, storeLog, printed,
                   parserVars, samplerVars, evalVars, favVars, compareVars, pbVars, spinnerVars, extractVars>>

BatchNext ==
    \/ BatchEnter
    \/ BatchSpawn
    \/ BatchSpawned
    \/ \E idx \in Workers : WorkerRun(idx)
    \/ \E idx \in Workers : WorkerLock(idx)
    \/ \E idx \in Workers : WorkerStore(idx)
    \/ \E idx \in Workers : WorkerUnlock(idx)
    \/ \E idx \in Workers : WorkerPrint(idx)
    \/ \E idx \in Workers : WorkerDone(idx)
    \/ BatchWait
    \/ BatchReturn

BatchSpec == BatchInit /\ [][BatchNext]_vars

(***************************************************************************)
(* The favorites store: AddFavorite, RemoveFavorite, IsFavorite, called     *)
(* one after another                                                       *)
(***************************************************************************)
FavInit ==
    /\ favoritesFile \in StoreInputs
    /\ favorites = <<>>
    /\ favCall = NoCall
    /\ ParserIdle
    /\ SamplerIdle
    /\ EvalIdle
    /\ BatchIdle
    /\ CompareIdle
    /\ PbIdle
    /\ SpinnerIdle
    /\ ExtractIdle

\* The same, from a store without duplicate NORAD IDs.
FavCleanInit ==
    /\ favoritesFile \in CleanStoreInputs
    /\ favorites = <<>>
    /\ favCall = NoCall
    /\ ParserIdle
    /\ SamplerIdle
    /\ EvalIdle
    /\ BatchIdle
    /\ CompareIdle
    /\ PbIdle
    /\ SpinnerIdle
    /\ ExtractIdle

AddFavorite ==
    \E satName \in FavoriteNames, noradID \in NoradIDs :
        LET loaded == LoadFavorites(favoritesFile)
        IN /\ favorites' = loaded
           /\ IF AlreadyInFavorites(loaded, noradID)
              THEN /\ favCall' = [fn |-> "AddFavorite", satName |-> satName,
                                  noradID |-> noradID,
                                  err |-> "already in favorites",
                                  result |-> FALSE, wrote |-> FALSE]
                   /\ UNCHANGED favoritesFile
              ELSE /\ Len(loaded) < MaxFavorites
                   /\ favoritesFile' =
                          SaveFavorites(Append(loaded, [SatelliteName |-> satName,
                                                        NORADID |-> noradID]), FALSE)
                   /\ favCall' = [fn |-> "AddFavorite", satName |-> satName,
                                  noradID |-> noradID, err |-> NoError,
                                  result |-> FALSE, wrote |-> TRUE]
           /\ UNCHANGED <<parserVars, samplerVars, evalVars, batchVars, compareVars, pbVars, spinnerVars, extractVars>>

RemoveFavorite ==
    \E noradID \in NoradIDs :
        LET loaded == LoadFavorites(favoritesFile)
            updatedFavorites == KeepOthers(loaded, noradID)
            found == AlreadyInFavorites(loaded, noradID)
        IN /\ favorites' = loaded
           /\ IF ~found
              THEN /\ favCall' = [fn |-> "RemoveFavorite", satName |-> "",
                                  noradID |-> noradID,
                                  err |-> "not found in favorites",
                                  result |-> FALSE, wrote |-> FALSE]
                   /\ UNCHANGED favoritesFile
              ELSE /\ favoritesFile' =
                          SaveFavorites(updatedFavorites, updatedFavorites = <<>>)
                   /\ favCall' = [fn |-> "RemoveFavorite", satName |-> "",
                                  noradID |-> noradID, err |-> NoError,
                                  result |-> FALSE, wrote |-> TRUE]
           /\ UNCHANGED <<parserVars, samplerVars, evalVars, batchVars, compareVars, pbVars, spinnerVars, extractVars>>

IsFavoriteCall ==
    \E noradID \in NoradIDs :
        /\ favorites' = LoadFavorites(favoritesFile)
        /\ favCall' = [fn |-> "IsFavorite", satName |-> "", noradID |-> noradID,
                       err |-> NoError,
                       result |-> IsFavorite(favoritesFile, noradID),
                       wrote |-> FALSE]
        /\ UNCHANGED <<favoritesFile, parserVars, samplerVars, evalVars, batchVars, compareVars, pbVars, spinnerVars, extractVars>>

FavNext == AddFavorite \/ RemoveFavorite \/ IsFavoriteCall

FavSpec == FavInit /\ [][FavNext]_vars

FavCleanSpec == FavCleanInit /\ [][FavNext]_vars

(***************************************************************************)
(* CompareSatellites                                                       *)
(***************************************************************************)
CompareInit ==
    /\ compareResults \in ResultInputs
    /\ comparison = ZeroComparison
    /\ comparePc = "call"
    /\ ParserIdle
    /\ SamplerIdle
    /\ EvalIdle
    /\ BatchIdle
    /\ FavIdle
    /\ PbIdle
    /\ SpinnerIdle
    /\ ExtractIdle

CompareSatellitesCall ==
    /\ comparePc = "call"
    /\ comparison' = CompareSatellites(compareResults)
    /\ comparePc' = "returned"
    /\ UNCHANGED <<compareResults, parserVars, samplerVars, evalVars, batchVars, favVars, pbVars, spinnerVars, extractVars>>

CompareNext == CompareSatellitesCall

CompareSpec == CompareInit /\ [][CompareNext]_vars

(***************************************************************************)
(* A ProgressBar and the calls made on it, one after another.  A call that *)
(* panics in render has made its field updates; the caller may recover and *)
(* go on.                                                                  *)
(***************************************************************************)
PbInit ==
    /\ \E total \in -1..MaxTotal :
         /\ pb = NewProgressBar(total)
         /\ pbCall = [fn |-> "NewProgressBar", arg |-> total,
                      before |-> NewProgressBar(total), panicked |-> FALSE]
    /\ ParserIdle
    /\ SamplerIdle
    /\ EvalIdle
    /\ BatchIdle
    /\ FavIdle
    /\ CompareIdle
    /\ SpinnerIdle
    /\ ExtractIdle

\* The ways a call that computed r from the bar can end: render may panic.
CallsOf(fn, arg, bar, r) ==
    {[fn |-> fn, arg |-> arg, before |-> bar, panicked |-> p] :
         p \in (IF r.rendered THEN RenderPanics(r.pb) ELSE {FALSE})}

PbUpdate ==
    \E n \in -1..(MaxTotal + 1) :
        /\ pb' = Update(pb, n).pb
        /\ pbCall' \in CallsOf("Update", n, pb, Update(pb, n))
        /\ UNCHANGED <<parserVars, samplerVars, evalVars, batchVars, favVars, compareVars, spinnerVars, extractVars>>

PbIncrement ==
    /\ pb' = Increment(pb).pb
    /\ pbCall' \in CallsOf("Increment", 0, pb, Increment(pb))
    /\ UNCHANGED <<parserVars, samplerVars, evalVars, batchVars, favVars, compareVars, spinnerVars, extractVars>>

PbSetTotal ==
    \E total \in -1..MaxTotal :
        /\ pb' = SetTotal(pb, total).pb
        /\ pbCall' \in CallsOf("SetTotal", total, pb, SetTotal(pb, total))
        /\ UNCHANGED <<parserVars, samplerVars, evalVars, batchVars, favVars, compareVars, spinnerVars, extractVars>>

PbComplete ==
    /\ pb' = Complete(pb).pb
    /\ pbCall' \in CallsOf("Complete", 0, pb, Complete(pb))
    /\ UNCHANGED <<parserVars, samplerVars, evalVars, batchVars, favVars, compareVars, spinnerVars, extractVars>>

PbNext == PbUpdate \/ PbIncrement \/ PbSetTotal \/ PbComplete

PbSpec == PbInit /\ [][PbNext]_vars

(***************************************************************************)
(* One Spinner, Start and Stop called from one goroutine                   *)
(***************************************************************************)
SpinnerInit ==
    /\ spinner = NewSpinner
    /\ goroutines = NoGoroutines
    /\ spinnerCall = NoSpinnerCall
    /\ spinnerPc = "idle"
    /\ ParserIdle
    /\ SamplerIdle
    /\ EvalIdle
    /\ BatchIdle
    /\ FavIdle
    /\ CompareIdle
    /\ PbIdle
    /\ ExtractIdle

\* Start(): the test of running, `s.running = true`, the go statement.
SpinnerStart ==
    /\ spinnerPc = "idle"
    /\ spinnerCall' = [fn |-> "Start", wasRunning |-> spinner.running]
    /\ IF StartReturnsAtOnce(spinner)
       THEN UNCHANGED <<spinner, goroutines>>
       ELSE /\ Alive(goroutines) < MaxGoroutines
            /\ spinner' = [spinner EXCEPT !.running = TRUE]
            /\ goroutines' = [goroutines EXCEPT !.loop = @ + 1]
    /\ UNCHANGED <<spinnerPc, parserVars, samplerVars, evalVars, batchVars, favVars,
                   compareVars, pbVars, extractVars>>

\* Stop() up to `s.stopChan <- true`.
SpinnerStop ==
    /\ spinnerPc = "idle"
    /\ spinnerCall' = [fn |-> "Stop", wasRunning |-> spinner.running]
    /\ spinnerPc' = IF StopReturnsAtOnce(spinner) THEN "idle" ELSE "send"
    /\ UNCHANGED <<spinner, goroutines, parserVars, samplerVars, evalVars, batchVars,
                   favVars, compareVars, pbVars, extractVars>>

\* case <-ticker.C: the frame is printed and the index moves on.
AnimationTick ==
    /\ goroutines.loop > 0
    /\ spinner' = [spinner EXCEPT !.index = NextIndex(spinner.index)]
    /\ UNCHANGED <<goroutines, spinnerCall, spinnerPc, parserVars, samplerVars,
                   evalVars, batchVars, favVars, compareVars, pbVars, extractVars>>

\* `s.stopChan <- true` in Stop meets `case <-s.stopChan` in a goroutine.
StopSignal ==
    /\ spinnerPc = "send"
    /\ goroutines.loop > 0
    /\ goroutines' = [goroutines EXCEPT !.loop = @ - 1, !.ack = @ + 1]
    /\ spinnerPc' = "receive"
    /\ UNCHANGED <<spinner, spinnerCall, parserVars, samplerVars, evalVars,
                   batchVars, favVars, compareVars, pbVars, extractVars>>

\* `s.doneChan <- true` in the goroutine meets `<-s.doneChan` in Stop.
DoneSignal ==
    /\ spinnerPc = "receive"
    /\ goroutines.ack > 0
    /\ goroutines' = [goroutines EXCEPT !.ack = @ - 1, !.return = @ + 1]
    /\ spinnerPc' = "clear"
    /\ UNCHANGED <<spinner, spinnerCall, parserVars, samplerVars, evalVars,
                   batchVars, favVars, compareVars, pbVars, extractVars>>

\* The rest of Stop(): the line is cleared, `s.running = false`.
StopReturn ==
    /\ spinnerPc = "clear"
    /\ spinner' = [spinner EXCEPT !.running = FALSE]
    /\ spinnerPc' = "idle"
    /\ UNCHANGED <<goroutines, spinnerCall, parserVars, samplerVars, evalVars,
                   batchVars, favVars, compareVars, pbVars, extractVars>>

\* `return` in the goroutine, and the deferred ticker.Stop().
AnimationReturn ==
    /\ goroutines.return > 0
    /\ goroutines' = [goroutines EXCEPT !.return = @ - 1]
    /\ UNCHANGED <<spinner, spinnerCall, spinnerPc, parserVars, samplerVars,
                   evalVars, batchVars, favVars, compareVars, pbVars, extractVars>>

SpinnerNext ==
    \/ SpinnerStart
    \/ SpinnerStop
    \/ AnimationTick
    \/ StopSignal
    \/ DoneSignal
    \/ StopReturn
    \/ AnimationReturn

SpinnerSpec == SpinnerInit /\ [][SpinnerNext]_vars

\* A goroutine that can run does run; the select takes a ready stop signal in
\* the end (it chooses among ready cases at random, and the ticker is ready
\* only every 100 ms).  The caller is free to stop calling.
SpinnerFairSpec ==
    /\ SpinnerSpec
    /\ WF_vars(StopSignal)
    /\ WF_vars(DoneSignal)
    /\ WF_vars(StopReturn)
    /\ WF_vars(AnimationReturn)

(***************************************************************************)
(* A selection made in SelectSatellite or SelectFromFavorites, and the     *)
(* caller's extractNorad of the string returned.                           *)
(***************************************************************************)
ExtractInit ==
    /\ selName \in SelectionNames
    /\ selNorad \in SelectionNoradIDs
    /\ selection = <<>>
    /\ norad = <<>>
    /\ extractPc = "select"
    /\ ParserIdle
    /\ SamplerIdle
    /\ EvalIdle
    /\ BatchIdle
    /\ FavIdle
    /\ CompareIdle
    /\ PbIdle
    /\ SpinnerIdle

Select ==
    /\ extractPc = "select"
    /\ selection' = SelectionString(selName, selNorad)
    /\ extractPc' = "selected"
    /\ UNCHANGED <<selName, selNorad, norad, parserVars, samplerVars, evalVars, batchVars, favVars, compareVars, pbVars, spinnerVars>>

ExtractNoradCall ==
    /\ extractPc = "selected"
    /\ norad' = extractNorad(selection)
    /\ extractPc' = "extracted"
    /\ UNCHANGED <<selName, selNorad, selection, parserVars, samplerVars, evalVars, batchVars, favVars, compareVars, pbVars, spinnerVars>>

ExtractNext == Select \/ ExtractNoradCall

ExtractSpec == ExtractInit /\ [][ExtractNext]_vars

(***************************************************************************)
(* Properties of the sampler                                               *)
(***************************************************************************)
SamplerDone == samplerPc = "done"

\* The single-epoch evaluation succeeds on the lines (it checks the lines only).
LinesEvaluate ==
    \A t \in 0..(MaxTime + MaxInterval) :
        CalculateSGP4Position(line1, line2, t).err = NoError

\* C2: for start <= end, interval > 0 and lines on which every evaluation
\* succeeds, the sampler returns floor((end - start) / interval) + 1 positions
\* and no error; the k-th (k = 0, 1, ...) is the evaluation at
\* start + k*interval, the instants were evaluated in that order, and an
\* instant equal to end is included.
C2_SampleCountAndOrder ==
    (SamplerDone /\ startTime <= endTime /\ interval > 0 /\ LinesEvaluate) =>
        LET n == ((endTime - startTime) \div interval) + 1
        IN /\ returned.err = NoError
           /\ Len(returned.positions) = n
           /\ calls = [k \in 1..n |-> startTime + (k - 1) * interval]
           /\ \A k \in 1..n :
                 returned.positions[k] =
                     CalculateSGP4Position(line1, line2,
                                           startTime + (k - 1) * interval).pos
           /\ (\E k \in 1..n : startTime + (k - 1) * interval = endTime) =>
                 returned.positions[n].Timestamp = endTime

\* end = start + interval gives two samples, the second at end.
C2_Witness ==
    /\ SamplerDone /\ LinesEvaluate
    /\ startTime < endTime /\ endTime = startTime + interval
    /\ Len(returned.positions) = 2
    /\ returned.positions[2].Timestamp = endTime

\* C3: with start after end, or interval <= 0, the sampler returns an error
\* and no positions, and no single-epoch evaluation is ever called, whatever
\* the lines are.
C3_InvalidRangeFailsFirst ==
    (startTime > endTime \/ interval <= 0) =>
        /\ calls = <<>>
        /\ samplerPc # "loop"
        /\ SamplerDone => (returned.err # NoError /\ returned.positions = <<>>)

\* Returned with a zero interval, on lines the evaluation would reject.
C3_Witness ==
    /\ SamplerDone /\ interval = 0 /\ startTime <= endTime
    /\ ~LinesEvaluate
    /\ returned.err = "interval must be positive"
    /\ calls = <<>>

\* C4: when the evaluation fails at a sampled instant, the sampler has stopped
\* at that instant: that call is the last one made, and the sampler returned
\* the evaluation's error, wrapped, with a nil sequence.
C4_FailFast ==
    \A i \in 1..Len(calls) :
        LET e == CalculateSGP4Position(line1, line2, calls[i]).err
        IN e # NoError =>
              /\ i = Len(calls)
              /\ SamplerDone
              /\ returned.positions = <<>>
              /\ returned.err # NoError
              /\ returned.err[Len(returned.err)] = e

\* A failed evaluation inside a valid range.
C4_Witness ==
    /\ SamplerDone /\ startTime < endTime /\ interval > 0
    /\ Len(calls) = 1
    /\ CalculateSGP4Position(line1, line2, calls[1]).err # NoError
    /\ returned.positions = <<>>

(***************************************************************************)
(* Properties of the parser                                                *)
(***************************************************************************)
ParserReturned == parserPc \in {"returned", "validated"}

\* The tokens of the two lines, and the token at a Go index (empty if none).
Tokens1 == Fields(two)

Tokens2 == Fields(three)

Tok(arr, i) == IF i < Len(arr) THEN arr[i + 1] ELSE <<>>

EnoughTokens == Len(Tokens1) >= 4 /\ Len(Tokens2) >= 3

\* The digit value of a character, 0 for any other character.
DigitOf(c) == IF IsDigit(c) THEN DigitVal(c) ELSE 0

LastChar(s) == s[Len(s)]

\* Every field but the name at its zero value.
FailureRecord(t) == [t EXCEPT !.CommonName = <<>>] = TLE

\* C1: with fewer than 4 tokens on line 1, or fewer than 3 on line 2, the
\* record returned is the zero-valued record: every numeric field 0, every
\* string field empty.
C1_TooFewTokensZeroRecord ==
    (ParserReturned /\ ~EnoughTokens) => tle = TLE

\* C5: a numeric field whose source text fails its conversion (a syntax error
\* or a range error) is 0 in the returned record.
IntFieldDefaults(present, text, field) ==
    (present /\ Atoi(text).err) => field = 0

FloatFieldDefaults(present, text, field) ==
    (present /\ ParseFloat(text).err) => field = ZeroF

AllButLast(s) == IF Len(s) > 1 THEN SubSeq(s, 1, Len(s) - 1) ELSE s

C5_FailedConversionGivesZero ==
    (ParserReturned /\ EnoughTokens) =>
        LET t8 == Tok(Tokens1, 8)
            t7 == Tok(Tokens2, 7)
        IN /\ FloatFieldDefaults(TRUE, Tok(Tokens1, 3), tle.ElementSetEpoch)
           /\ FloatFieldDefaults(Len(Tokens1) > 4, Tok(Tokens1, 4),
                                 tle.FirstDerivativeMeanMotion)
           /\ IntFieldDefaults(Len(Tokens1) > 7, Tok(Tokens1, 7), tle.ElementSetType)
           /\ IntFieldDefaults(Len(Tokens1) > 8, AllButLast(t8), tle.ElementNumber)
           /\ IntFieldDefaults(Len(t8) > 1, <<LastChar(t8)>>, tle.ChecksumOne)
           /\ IntFieldDefaults(TRUE, Tok(Tokens2, 1), tle.SatelliteCatalogNumber)
           /\ FloatFieldDefaults(TRUE, Tok(Tokens2, 2), tle.OrbitInclination)
           /\ FloatFieldDefaults(Len(Tokens2) > 3, Tok(Tokens2, 3), tle.RightAscension)
           /\ FloatFieldDefaults(Len(Tokens2) > 4, <<"0", ".">> \o Tok(Tokens2, 4),
                                 tle.Eccentrcity)
           /\ FloatFieldDefaults(Len(Tokens2) > 5, Tok(Tokens2, 5), tle.Perigee)
           /\ FloatFieldDefaults(Len(Tokens2) > 6, Tok(Tokens2, 6), tle.MeanAnamoly)
           /\ FloatFieldDefaults(Len(Tokens2) > 7,
                                 IF Len(t7) >= 11 THEN SubSeq(t7, 1, 11) ELSE t7,
                                 tle.MeanMotion)
           /\ IntFieldDefaults(Len(t7) >= 16, SubSeq(t7, 12, 16), tle.RevolutionNumber)
           /\ IntFieldDefaults(Len(t7) > 0, <<LastChar(t7)>>, tle.ChecksumTwo)

\* C6: the parser never panics and always returns a record; a field whose
\* token index is beyond the tokens of its line keeps its zero or empty default.
C6_NeverPanics ==
    /\ ~panicked
    /\ parserPc # "panic"
    /\ (ParserReturned /\ EnoughTokens) =>
          /\ Len(Tokens1) <= 4 => tle.FirstDerivativeMeanMotion = ZeroF
          /\ Len(Tokens1) <= 5 => tle.SecondDerivativeMeanMotion = <<>>
          /\ Len(Tokens1) <= 6 => tle.BDragTerm = <<>>
          /\ Len(Tokens1) <= 7 => tle.ElementSetType = 0
          /\ Len(Tokens1) <= 8 => (tle.ElementNumber = 0 /\ tle.ChecksumOne = 0)
          /\ Len(Tokens2) <= 3 => tle.RightAscension = ZeroF
          /\ Len(Tokens2) <= 4 => tle.Eccentrcity = ZeroF
          /\ Len(Tokens2) <= 5 => tle.Perigee = ZeroF
          /\ Len(Tokens2) <= 6 => tle.MeanAnamoly = ZeroF
          /\ Len(Tokens2) <= 7 =>
                (tle.MeanMotion = ZeroF /\ tle.RevolutionNumber = 0 /\ tle.ChecksumTwo = 0)

\* Returned on lines of exactly 4 and 3 tokens: every later field was skipped.
C6_Witness ==
    /\ ParserReturned /\ ~panicked
    /\ Len(Tokens1) = 4 /\ Len(Tokens2) = 3
    /\ tle.InternationalDesignator # <<>>
    /\ tle.ElementNumber = 0 /\ tle.MeanMotion = ZeroF

WrongPrefix ==
    \/ ~HasPrefix(two, <<"1", " ">>)
    \/ ~HasPrefix(three, <<"2", " ">>)

EpochParsesToZero ==
    LET e == ParseFloat(Tok(Tokens1, 3))
    IN ~e.err /\ e.f = ZeroF

\* C10 as claimed: a record that passed the token-count check, with an epoch
\* of exactly 0.0 (and a catalog number of 0), makes the callers' three-field
\* test true and is reported as a parse failure.
C10_ZeroEpochReportedAsFailure ==
    (parserPc = "validated" /\ EnoughTokens /\ EpochParsesToZero
        /\ tle.SatelliteCatalogNumber = 0) => parsingFailed

\* C10 as amended: no input that passes the token-count check makes the
\* three-field test true, because the designator is a token and so never
\* empty; a record with an epoch of exactly 0.0 and a catalog number of 0 is
\* not reported as a parse failure.
C10_ThreeFieldTestNeverFires ==
    /\ (ParserReturned /\ EnoughTokens) => ~ThreeFieldTest(tle)
    /\ (parserPc = "validated" /\ EnoughTokens) => ~parsingFailed

\* Epoch 0.0 and catalog number 0, validated, and not reported as a failure.
C10_Witness ==
    /\ parserPc = "validated" /\ EnoughTokens /\ EpochParsesToZero
    /\ tle.SatelliteCatalogNumber = 0
    /\ tle.ElementSetEpoch = ZeroF
    /\ ~parsingFailed

\* The text is an integer that strconv.Atoi converts without an error.
IsInteger(text) == ~Atoi(text).err

\* C14: when both lines pass the token-count check, the catalog number of the
\* record is the integer value of line2 token[1], and 0 if that token is not a
\* valid integer, whatever line1 token[1] carries.
C14_CatalogFromLineTwo ==
    (ParserReturned /\ EnoughTokens) =>
        LET text == Tok(Tokens2, 1)
        IN tle.SatelliteCatalogNumber = IF IsInteger(text) THEN Atoi(text).v ELSE 0

\* The element number and the line-1 checksum that line1 token[8] gives.
ElementNumberSplit ==
    LET t8 == Tok(Tokens1, 8)
    IN /\ (Len(Tokens1) >= 9 /\ Len(t8) > 1) =>
              /\ IsInteger(AllButLast(t8)) =>
                     tle.ElementNumber = Atoi(AllButLast(t8)).v
              /\ tle.ChecksumOne = DigitOf(LastChar(t8))
       /\ (Len(Tokens1) >= 9 /\ Len(t8) = 1) =>
              /\ IsInteger(t8) => tle.ElementNumber = Atoi(t8).v
              /\ tle.ChecksumOne = 0

FewerThanNineTokens ==
    Len(Tokens1) < 9 => (tle.ElementNumber = 0 /\ tle.ChecksumOne = 0)

\* C15 as claimed: a line1 token[8] longer than 1 gives ElementNumber the
\* integer value of all but its last character and ChecksumOne the digit value
\* of its last character; a token[8] of length 1 gives ElementNumber the value
\* of the whole token and leaves ChecksumOne 0; with fewer than 9 tokens on
\* line 1 both are 0.
C15_ElementNumberSplit ==
    ParserReturned => (ElementNumberSplit /\ FewerThanNineTokens)

\* C15 as amended: the split of token[8] happens when both lines pass the
\* token-count check; when they do not, or when line 1 has fewer than 9
\* tokens, ElementNumber and ChecksumOne are 0.
C15_ElementNumberSplitAfterTokenCheck ==
    /\ (ParserReturned /\ EnoughTokens) => ElementNumberSplit
    /\ (ParserReturned /\ ~EnoughTokens) =>
           (tle.ElementNumber = 0 /\ tle.ChecksumOne = 0)
    /\ ParserReturned => FewerThanNineTokens

\* The ISS pair: token[8] = "9993" is split into 999 and 3.
C15_Witness ==
    /\ ParserReturned /\ EnoughTokens
    /\ Tok(Tokens1, 8) = <<"9", "9", "9", "3">>
    /\ tle.ElementNumber = 999
    /\ tle.ChecksumOne = 3

\* A finite positive decimal 0.d1d2...dn * 10^pe.
Decimal(digs, pe) == [cls |-> "fin", neg |-> FALSE, digs |-> digs, pe |-> pe]

ISSPair == two = testTLELine1 /\ three = testTLELine2

\* C16: the ISS pair of the tests parses to catalog number 25544,
\* classification "U", designator "98067A", inclination 51.6335, mean motion
\* 15.70406856, revolution number 32890 and line-2 checksum 6.
C16_ISSPairFields ==
    (ParserReturned /\ ISSPair) =>
        /\ tle.SatelliteCatalogNumber = 25544
        /\ tle.ElsetClassificiation = <<"U">>
        /\ tle.InternationalDesignator = <<"9", "8", "0", "6", "7", "A">>
        /\ tle.OrbitInclination = Decimal(<<5, 1, 6, 3, 3, 5>>, 2)
        /\ tle.MeanMotion = Decimal(<<1, 5, 7, 0, 4, 0, 6, 8, 5, 6>>, 2)
        /\ tle.RevolutionNumber = 32890
        /\ tle.ChecksumTwo = 6

C16_Witness ==
    /\ ParserReturned /\ ISSPair
    /\ tle.RevolutionNumber = 32890
    /\ tle.MeanMotion = Decimal(<<1, 5, 7, 0, 4, 0, 6, 8, 5, 6>>, 2)

(***************************************************************************)
(* Properties of the single-epoch evaluation                               *)
(***************************************************************************)
EvalDone == evalPc = "done"

WithObserver == evalFn = "CalculateSGP4PositionWithObserver"

\* The look angles were computed, for an observer at the satellite's position.
ZeroRange == libCalls = 2 /\ SumOfSquares(position, observer) = 0

\* C11: when the observer's position coincides with the satellite's, so that
\* the range is 0, CalculateSGP4PositionWithObserver returns an error, and it
\* never returns a successful result whose azimuth or elevation is NaN.
C11_ZeroRangeIsAnError ==
    (EvalDone /\ WithObserver /\ ZeroRange) =>
        /\ evalReturned.err # NoError
        /\ evalReturned.err = NoError =>
               /\ evalReturned.result.LookAngles.Azimuth # "NaN"
               /\ evalReturned.result.LookAngles.Elevation # "NaN"

\* The mean motion of line 2, columns 53 to 63, is a number that is 0 or
\* negative.
MeanMotionNotPositive ==
    LET t2 == TrimSpace(evalLine2)
    IN /\ Len(t2) >= 63
       /\ LET n == ParseFloat(TrimSpace(Slice(t2, 52, 63)))
          IN ~n.err /\ (n.f.cls = "zero" \/ n.f.neg)

\* C12: CalculateSGP4Position returns an error, not a position, when the mean
\* motion of the element set is not positive.
C12_DegenerateElementsAreAnError ==
    (EvalDone /\ MeanMotionNotPositive) => satPosition.err # NoError

\* A trimmed line is too short or does not start as its line number demands.
BadLines ==
    LET t1 == TrimSpace(evalLine1)
        t2 == TrimSpace(evalLine2)
    IN \/ Len(t1) < 69
       \/ Len(t2) < 69
       \/ Len(t1) < 2 \/ t1[1] # "1" \/ t1[2] # " "
       \/ Len(t2) < 2 \/ t2[1] # "2" \/ t2[2] # " "

\* A valid line of the tests with white space before and after it.
Padded(line) ==
    {pre \o line \o post : pre \in {<<>>, <<" ">>, <<" ", " ">>},
                           post \in {<<>>, <<"\t">>, <<" ", " ">>}}

\* C13: CalculateSGP4Position trims both lines; if a trimmed line is shorter
\* than 69 characters, or trimmed line 1 does not start with "1 ", or trimmed
\* line 2 does not start with "2 ", it returns an error and the zero
\* SGPPosition and the library is not called; white space around valid lines
\* causes no error.
C13_InvalidLinesFailBeforeLibrary ==
    EvalDone =>
        /\ BadLines => /\ satPosition.err # NoError
                       /\ satPosition.pos = ZeroPosition
                       /\ libCalls = 0
        /\ ~BadLines => (satPosition.err = NoError /\ libCalls >= 1)
        /\ (evalLine1 \in Padded(testTLELine1) /\ evalLine2 \in Padded(testTLELine2))
               => satPosition.err = NoError

\* Line 1 cut to 68 characters: an error, the zero position, no library call.
C13_Witness ==
    /\ EvalDone
    /\ evalFn = "CalculateSGP4Position"
    /\ evalLine1 = SubSeq(testTLELine1, 1, 68)
    /\ evalLine2 = testTLELine2
    /\ evalReturned.err # NoError
    /\ evalReturned.result.Position = ZeroPosition
    /\ libCalls = 0

\* C20: every successful result of CalculateSGP4PositionWithObserver has a
\* range-rate of exactly 0.
C20_RangeRateIsZero ==
    (EvalDone /\ WithObserver /\ evalReturned.err = NoError) =>
        evalReturned.result.LookAngles.RangeRate = ZeroF

\* A successful result for an observer away from the satellite.
C20_Witness ==
    /\ EvalDone /\ WithObserver
    /\ evalReturned.err = NoError
    /\ evalReturned.result.LookAngles.Range.sqrtOf > 0
    /\ evalReturned.result.LookAngles.RangeRate = ZeroF

(***************************************************************************)
(* Properties of the batch download                                        *)
(***************************************************************************)
\* The workers of the batch (one per satellite).
BatchWorkers == {w \in Workers : w < Len(satellites)}

WorkerStarted(w) == workerPc[w] # "none"

\* The worker is past its store.
WorkerStored(w) == workerPc[w] \in {"unlock", "print", "exit", "done"}

\* The stores made into a slot, in order.
StoresInto(slot) == SelectSeq(storeLog, LAMBDA e : e.slot = slot)

\* C19: results has one slot per satellite before any worker starts; worker i
\* stores into slot i only, and exactly once on each of its exit paths; the
\* summary and the return read results only when every worker has finished;
\* on return results[i].Satellite = satellites[i] for every i.
C19_FanOutFanIn ==
    /\ (\E w \in Workers : WorkerStarted(w)) => Len(results) = Len(satellites)
    /\ \A k \in 1..Len(storeLog) : storeLog[k].slot = storeLog[k].worker
    /\ \A w \in Workers :
          /\ Len(StoresInto(w)) <= 1
          /\ WorkerStored(w) => Len(StoresInto(w)) = 1
    /\ (batchPc = "summary" \/ (batchPc = "returned" /\ ~batchReturned.nil)) =>
          \A w \in BatchWorkers : workerPc[w] = "done"
    /\ (batchPc = "returned" /\ ~batchReturned.nil) =>
          /\ Len(batchReturned.results) = Len(satellites)
          /\ \A w \in BatchWorkers :
                /\ At(batchReturned.results, w).Satellite = At(satellites, w)
                /\ At(batchReturned.results, w) = workerResult[w]

\* Two workers, the second storing first, one on a failure path; returned.
C19_Witness ==
    /\ batchPc = "returned" /\ ~batchReturned.nil
    /\ Len(satellites) = 2
    /\ storeLog = <<[worker |-> 1, slot |-> 1], [worker |-> 0, slot |-> 0]>>
    /\ At(batchReturned.results, 0).Satellite = At(satellites, 0)
    /\ At(batchReturned.results, 1).Satellite = At(satellites, 1)
    /\ At(batchReturned.results, 0).Success
    /\ ~At(batchReturned.results, 1).Success

(***************************************************************************)
(* Properties of the favorites store                                       *)
(***************************************************************************)
\* The list in the store now; `favorites` is the list the last call loaded.
Stored == LoadFavorites(favoritesFile)

\* C21: from a store without duplicate NORAD IDs, after any sequence of
\* AddFavorite and RemoveFavorite calls the store has no two entries with the
\* same NORAD ID; AddFavorite with an ID in the store returns the "already in
\* favorites" error and leaves the list as it was; AddFavorite with a new ID
\* appends exactly one entry.
C21_NoDuplicateFavorites ==
    /\ NoDuplicates(Stored)
    /\ favCall.fn = "AddFavorite" =>
          IF \E k \in 1..Len(favorites) : favorites[k].NORADID = favCall.noradID
          THEN /\ favCall.err = "already in favorites"
               /\ ~favCall.wrote
               /\ Stored = favorites
          ELSE /\ favCall.err = NoError
               /\ Len(Stored) = Len(favorites) + 1
               /\ SubSeq(Stored, 1, Len(favorites)) = favorites
               /\ Stored[Len(Stored)] = [SatelliteName |-> favCall.satName,
                                         NORADID |-> favCall.noradID]

\* A refused AddFavorite on a store of two entries.
C21_Witness ==
    /\ favCall.fn = "AddFavorite"
    /\ favCall.err = "already in favorites"
    /\ Len(Stored) = 2
    /\ Stored[2].NORADID = favCall.noradID
    /\ Stored[2].SatelliteName # favCall.satName

\* C22: RemoveFavorite(id) on a store that contains id removes every entry
\* with that NORAD ID and keeps the others in their order, and IsFavorite(id)
\* is then false; on a store without id it returns the "not found" error and
\* the file is neither written nor changed.
C22_RemoveFavoriteFrame ==
    favCall.fn = "RemoveFavorite" =>
        IF \E k \in 1..Len(favorites) : favorites[k].NORADID = favCall.noradID
        THEN /\ favCall.err = NoError
             /\ Stored = SelectSeq(favorites,
                                   LAMBDA fav : fav.NORADID # favCall.noradID)
             /\ ~IsFavorite(favoritesFile, favCall.noradID)
        ELSE /\ favCall.err = "not found in favorites"
             /\ ~favCall.wrote
             /\ Stored = favorites

\* The ID removed stood twice in a store of three; one other entry is left.
C22_Witness ==
    /\ favCall.fn = "RemoveFavorite"
    /\ favCall.err = NoError
    /\ Len(favorites) = 3
    /\ favorites[1].NORADID = favCall.noradID
    /\ favorites[3].NORADID = favCall.noradID
    /\ Stored = <<favorites[2]>>

(***************************************************************************)
(* Properties of CompareSatellites                                         *)
(***************************************************************************)
SuccessfulResults == SelectSeq(compareResults, LAMBDA res : res.Success)

FailedResults == SelectSeq(compareResults, LAMBDA res : ~res.Success)

\* C23: TotalProcessed is the number of results, Successful the number with
\* Success true, Failed the number with Success false, so that Successful +
\* Failed = TotalProcessed; Satellites holds the successful results'
\* satellites, in order; for an empty slice the counts are 0 and the list is
\* empty.
C23_ComparisonCounts ==
    comparePc = "returned" =>
        /\ comparison.Summary.TotalProcessed = Len(compareResults)
        /\ comparison.Summary.Successful = Len(SuccessfulResults)
        /\ comparison.Summary.Failed = Len(FailedResults)
        /\ comparison.Summary.Successful + comparison.Summary.Failed
               = comparison.Summary.TotalProcessed
        /\ Len(comparison.Satellites) = Len(SuccessfulResults)
        /\ \A k \in 1..Len(SuccessfulResults) :
               comparison.Satellites[k] = SuccessfulResults[k].Satellite
        /\ compareResults = <<>> => comparison = ZeroComparison

\* Three results: a success, a failure, a success.
C23_Witness ==
    /\ comparePc = "returned"
    /\ Len(compareResults) = 3
    /\ compareResults[1].Success /\ ~compareResults[2].Success
    /\ compareResults[3].Success
    /\ comparison.Summary.Successful = 2
    /\ comparison.Summary.Failed = 1
    /\ comparison.Satellites
           = <<compareResults[1].Satellite, compareResults[3].Satellite>>

(***************************************************************************)
(* Properties of the ProgressBar                                           *)
(***************************************************************************)
Min(a, b) == IF a < b THEN a ELSE b

\* At least one method has been called on the bar.
PbOperated == pbCall.fn # "NewProgressBar"

\* C24: after every operation in any sequence of Update, Increment, SetTotal
\* and Complete, current <= total; Update and Increment cap current at total,
\* SetTotal lowers current to the new total when it would exceed it.
C24_CurrentAtMostTotal ==
    PbOperated =>
        /\ pb.current <= pb.total
        /\ (pbCall.fn = "Update" /\ ~pbCall.before.completed) =>
               pb.current = Min(pbCall.arg, pbCall.before.total)
        /\ (pbCall.fn = "Increment" /\ ~pbCall.before.completed) =>
               pb.current = Min(pbCall.before.current + 1, pbCall.before.total)
        /\ pbCall.fn = "SetTotal" =>
               /\ pb.total = pbCall.arg
               /\ pb.current = Min(pbCall.before.current, pbCall.arg)

\* Update(4) on a bar of total 3 at 1: capped at 3.
C24_Witness ==
    /\ pbCall.fn = "Update" /\ pbCall.arg = 4
    /\ pbCall.before.total = 3 /\ pbCall.before.current = 1
    /\ ~pbCall.before.completed
    /\ pb.current = 3

\* Complete() was called before the last call.
CompletedBefore == PbOperated /\ pbCall.before.completed

\* C30 as claimed: once Complete() has been called, completed stays true,
\* later Update and Increment calls change nothing, and current = total holds
\* after every later Update, Increment, SetTotal and Complete.
C30_CompleteIsFinal ==
    CompletedBefore =>
        /\ pb.completed
        /\ pbCall.fn \in {"Update", "Increment"} => pb = pbCall.before
        /\ pb.current = pb.total

\* C30 as amended: once Complete() has been called, completed stays true and
\* later Update, Increment and Complete calls change nothing; SetTotal(t)
\* still sets total to t and lowers current to t when it exceeds it, so that
\* current <= total holds, but it does not raise current: after SetTotal(t)
\* with t above current, current is below total and stays there.
C30_CompleteFreezesProgressOnly ==
    CompletedBefore =>
        /\ pb.completed
        /\ pbCall.fn \in {"Update", "Increment", "Complete"} => pb = pbCall.before
        /\ pbCall.fn = "SetTotal" =>
               /\ pb.total = pbCall.arg
               /\ pb.current = Min(pbCall.before.current, pbCall.arg)
        /\ pb.current <= pb.total

\* A completed bar of total 1, then SetTotal(3): current stays 1.
C30_Witness ==
    /\ CompletedBefore
    /\ pbCall.fn = "SetTotal" /\ pbCall.arg = 3
    /\ pbCall.before.total = 1 /\ pbCall.before.current = 1
    /\ pb.completed /\ pb.total = 3 /\ pb.current = 1

(***************************************************************************)
(* Properties of the Spinner                                               *)
(***************************************************************************)
\* The goroutines that are still animating (in the loop).
Animating == goroutines.loop

\* Between Start and the end of Stop running is true and one goroutine
\* animates or is acknowledging the stop; outside, none does.
RunningBetweenStartAndStop ==
    /\ spinnerPc \in {"idle", "send"} =>
           (spinner.running <=> goroutines.loop = 1)
    /\ spinnerPc \in {"receive", "clear"} => spinner.running
    /\ spinnerPc # "idle" => (spinnerCall.fn = "Stop" /\ spinnerCall.wasRunning)

\* Stop on a spinner that is not running returns at once; Start on a running
\* spinner starts nothing.
IdleCallsDoNothing ==
    /\ (spinnerCall.fn = "Stop" /\ ~spinnerCall.wasRunning) => spinnerPc = "idle"
    /\ goroutines.loop + goroutines.ack <= 1

\* Every Stop on a running spinner returns, with running false.
StopReturns ==
    (spinnerPc = "send") ~> (spinnerPc = "idle" /\ ~spinner.running)

\* C25 as claimed: for any sequence of Start and Stop calls from one
\* goroutine, running is true exactly between a Start and the next Stop,
\* Start on a running spinner and Stop on a stopped one do nothing, at most one
\* animation goroutine is alive at any time, and every Stop returns, having
\* waited until the goroutine acknowledged the stop signal and exited.
C25_OneGoroutineAndStopWaitsForExit ==
    /\ [](RunningBetweenStartAndStop /\ IdleCallsDoNothing)
    /\ [](Alive(goroutines) <= 1)
    /\ [](spinnerPc = "clear" => Alive(goroutines) = 0)
    /\ StopReturns

\* C25 as amended: at most one goroutine animates (is in the loop or
\* acknowledging a stop) at any time, and every Stop returns after the
\* goroutine has acknowledged the stop signal and left the loop; the goroutine
\* returns after that, so that it can still be alive when Stop returns and
\* when the next Start spawns another.
C25_OneAnimationAndStopWaitsForAck ==
    /\ [](RunningBetweenStartAndStop /\ IdleCallsDoNothing)
    /\ [](spinnerPc = "clear" => (goroutines.loop = 0 /\ goroutines.ack = 0))
    /\ StopReturns

\* Started again after a Stop while the goroutine of the first Start has
\* not returned yet.
C25_Witness ==
    /\ spinnerPc = "idle"
    /\ spinnerCall = [fn |-> "Start", wasRunning |-> FALSE]
    /\ spinner.running
    /\ goroutines.loop = 1
    /\ goroutines.return = 1

(***************************************************************************)
(* Properties of extractNorad                                              *)
(***************************************************************************)
\* C26: extractNorad applied to the string formatted as "<name> (<norad>)"
\* returns exactly <norad>, for every satellite name and NORAD ID.
C26_ExtractRecoversNorad ==
    extractPc = "extracted" => norad = selNorad

(***************************************************************************)
(* Termination of the sampler                                              *)
(***************************************************************************)
\* C27: for every start <= end and every interval > 0 the loop of
\* CalculateSGP4Positions terminates: the current instant grows by interval
\* on each iteration, and the call returns, with a sequence or an error.
C27_LoopTerminates ==
    /\ [][samplerPc = "loop" /\ samplerPc' = "loop"
            => currentTime' = currentTime + interval]_vars
    /\ (samplerPc = "entry" /\ startTime <= endTime /\ interval > 0)
           ~> (samplerPc = "done" /\ returned # NotReturned)

(***************************************************************************)
(* The progress counter of BatchDownloadTLE                                *)
(***************************************************************************)
\* The workers that have printed their progress message.
HasPrinted(w) == workerPc[w] \in {"exit", "done"} /\ workerResult[w].Success

\* The value `completed` took at the increment of worker w: the stores are
\* counted from 1 in the order they were made.
OwnIncrement(w) == CHOOSE k \in 1..Len(storeLog) : storeLog[k].worker = w

\* C28: the completed counter is only read and written while the mutex is
\* held, so the k of a worker's "[k/n] Downloaded" message is the value the
\* counter took at that worker's own increment, and no two workers of one
\* batch print the same k.
C28_ProgressUnderMutex ==
    /\ \A w \in Workers : workerPc[w] \in {"store", "print"} => mu = {w}
    /\ \A w \in Workers : HasPrinted(w) => printed[w] = OwnIncrement(w)
    /\ \A v, w \in Workers :
           HasPrinted(v) /\ HasPrinted(w) /\ printed[v] = printed[w] => v = w

\* C29: every result in the slice returned by BatchDownloadTLE has
\* Success = true exactly when its Error is nil: a worker on a failure path
\* stores Success = false with an error, on the success path Success = true
\* with none.
C29_SuccessIffNoError ==
    /\ \A w \in Workers :
           workerPc[w] \in {"unlock", "print", "exit", "done"}
               => /\ At(results, w) = workerResult[w]
                  /\ workerResult[w].Success <=> workerResult[w].Error = NoError
                  /\ workerResult[w].Error \in ExitPaths
    /\ batchPc = "returned" /\ ~batchReturned.nil
           => \A i \in 1..Len(batchReturned.results) :
                  batchReturned.results[i].Success
                      <=> batchReturned.results[i].Error = NoError

\* Returned with one satellite downloaded and one failed in the parse.
C29_Witness ==
    /\ batchPc = "returned"
    /\ ~batchReturned.nil
    /\ Len(batchReturned.results) = 2
    /\ batchReturned.results[1].Success
    /\ batchReturned.results[1].Error = NoError
    /\ ~batchReturned.results[2].Success
    /\ batchReturned.results[2].Error = "failed to parse TLE data"

=============================================================================
